---------------------------- MODULE Spec2Model ----------------------------
(***************************************************************************)
(* A model of the Fusion Chess rules engine (src/src/FusionBoard.ts).     *)
(*                                                                         *)
(* FusionBoard extends the chess.js Chess class.  chess.js itself is an   *)
(* external library; the operators of the section "Board oracle" model    *)
(* the chess.js 1.0.0-beta calls the engine makes (get/put/remove/load/   *)
(* fen/move/isAttacked/isCheck/validateFen).  Everything after that       *)
(* section is a translation of FusionBoard.ts.                             *)
(*                                                                         *)
(* Squares are numbered 1..64, a1 = 1, b1 = 2, ..., h1 = 8, a2 = 9, ...,  *)
(* h8 = 64.  Pieces are written as in a FEN string: upper case for white, *)
(* lower case for black.  "." is an empty square.                         *)
(***************************************************************************)
EXTENDS Integers, Sequences, FiniteSets, TLC

----------------------------------------------------------------------------
(* Squares and geometry                                                    *)

Squares == 1..64

\* chess.js keeps the king squares in _kings, EMPTY (-1) when a colour has no
\* king.  In its 0x88 board a8 is index 0, so -1 is "the square left of a8":
\* file 0 of rank 8.  NoSq is that slot; attack lookups relative to it are
\* computed by the same difference table as for real squares.
NoSq == 0

File(s) == IF s = 0 THEN 0 ELSE ((s - 1) % 8) + 1
Rank(s) == IF s = 0 THEN 8 ELSE ((s - 1) \div 8) + 1
SqAt(f, r) == f + 8 * (r - 1)

Abs(x) == IF x < 0 THEN -x ELSE x
Sgn(x) == IF x < 0 THEN -1 ELSE IF x > 0 THEN 1 ELSE 0
Max2(x, y) == IF x > y THEN x ELSE y

RelOf(s, t) ==
    LET dx == Abs(File(t) - File(s))
        dy == Abs(Rank(t) - Rank(s))
    IN  IF dx = 0 /\ dy = 0 THEN "same"
        ELSE IF dx = 0 \/ dy = 0 THEN "orth"
        ELSE IF dx = dy THEN "diag"
        ELSE IF {dx, dy} = {1, 2} THEN "knight"
        ELSE "none"

DistOf(s, t) == Max2(Abs(File(t) - File(s)), Abs(Rank(t) - Rank(s)))

BtwOf(s, t) ==
    IF RelOf(s, t) \in {"orth", "diag"}
    THEN LET sx == Sgn(File(t) - File(s))
             sy == Sgn(Rank(t) - Rank(s))
         IN  {SqAt(File(s) + k * sx, Rank(s) + k * sy) : k \in 1..(DistOf(s, t) - 1)}
    ELSE {}

\* The tables are constants of the module (the ATTACKS and RAYS tables of
\* chess.js); from is a board square, to a board square or NoSq.
Rel  == [s \in Squares |-> [t \in 0..64 |-> RelOf(s, t)]]
Dist == [s \in Squares |-> [t \in 0..64 |-> DistOf(s, t)]]
Btw  == [s \in Squares |-> [t \in 0..64 |-> BtwOf(s, t)]]

SQNAMES ==
    << "a1","b1","c1","d1","e1","f1","g1","h1",
       "a2","b2","c2","d2","e2","f2","g2","h2",
       "a3","b3","c3","d3","e3","f3","g3","h3",
       "a4","b4","c4","d4","e4","f4","g4","h4",
       "a5","b5","c5","d5","e5","f5","g5","h5",
       "a6","b6","c6","d6","e6","f6","g6","h6",
       "a7","b7","c7","d7","e7","f7","g7","h7",
       "a8","b8","c8","d8","e8","f8","g8","h8" >>

SquareNames == {SQNAMES[i] : i \in Squares}
SqOfName == [n \in SquareNames |-> CHOOSE i \in Squares : SQNAMES[i] = n]

\* SQUARES of chess.js lists a8, b8, ..., h8, a7, ..., h1.
SquaresOrder == [i \in 1..64 |-> SqAt(((i - 1) % 8) + 1, 8 - ((i - 1) \div 8))]

sq_c1 == SqOfName["c1"]
sq_d1 == SqOfName["d1"]
sq_e1 == SqOfName["e1"]
sq_f1 == SqOfName["f1"]
sq_g1 == SqOfName["g1"]
sq_c8 == SqOfName["c8"]
sq_d8 == SqOfName["d8"]
sq_e8 == SqOfName["e8"]
sq_f8 == SqOfName["f8"]
sq_g8 == SqOfName["g8"]

----------------------------------------------------------------------------
(* Pieces                                                                  *)

Empty == "."
PIECES == {"p", "n", "b", "r", "q", "k"}

\* A piece is [t |-> type, c |-> colour] in chess.js; here it is one string.
\* "?x" is a piece whose colour is undefined: _updateVirtualBoard puts one on
\* the virtual board for a Fusion Map entry whose square is empty.
PieceInfo ==
    [p \in {"P","N","B","R","Q","K","p","n","b","r","q","k",
            "?p","?n","?b","?r","?q"} |->
        CASE p = "P" -> <<"p", "w">> [] p = "N" -> <<"n", "w">>
          [] p = "B" -> <<"b", "w">> [] p = "R" -> <<"r", "w">>
          [] p = "Q" -> <<"q", "w">> [] p = "K" -> <<"k", "w">>
          [] p = "p" -> <<"p", "b">> [] p = "n" -> <<"n", "b">>
          [] p = "b" -> <<"b", "b">> [] p = "r" -> <<"r", "b">>
          [] p = "q" -> <<"q", "b">> [] p = "k" -> <<"k", "b">>
          [] p = "?p" -> <<"p", "u">> [] p = "?n" -> <<"n", "u">>
          [] p = "?b" -> <<"b", "u">> [] p = "?r" -> <<"r", "u">>
          [] p = "?q" -> <<"q", "u">>]

\* type and colour of the occupant of a square; "none" for an empty square
\* (get() returns false there, and false.type is undefined)
TypeOf(p) == IF p = Empty THEN "none" ELSE PieceInfo[p][1]
ColorOf(p) == IF p = Empty THEN "none" ELSE PieceInfo[p][2]

MkPiece ==
    [c \in {"w", "b", "u"} |-> [t \in PIECES |->
        IF c = "w"
        THEN CASE t = "p" -> "P" [] t = "n" -> "N" [] t = "b" -> "B"
               [] t = "r" -> "R" [] t = "q" -> "Q" [] t = "k" -> "K"
        ELSE IF c = "b" THEN t
        ELSE CASE t = "p" -> "?p" [] t = "n" -> "?n" [] t = "b" -> "?b"
               [] t = "r" -> "?r" [] t = "q" -> "?q" [] t = "k" -> "?q"]]

Opp(c) == IF c = "w" THEN "b" ELSE "w"

----------------------------------------------------------------------------
(* Board oracle: the chess.js position and the calls made on it             *)

\* A position: b the board, t the side to move, c the castling rights (a
\* subset of {"K","Q","k","q"}), ep the en-passant square (NoSq for "-"),
\* hm, fm the half-move clock and move number, kw, kb the _kings slots.
KingOf(o, c) == IF c = "w" THEN o.kw ELSE o.kb

SetKing(o, c, s) ==
    IF c = "w" THEN [o EXCEPT !.kw = s]
    ELSE IF c = "b" THEN [o EXCEPT !.kb = s]
    ELSE o

\* Chess._attacked, for one attacker: the piece on s attacks t
Hits(b, s, t) ==
    LET p == b[s]
        ty == TypeOf(p)
        rel == Rel[s][t]
    IN  CASE ty = "p" -> /\ rel = "diag"
                         /\ Dist[s][t] = 1
                         /\ Rank(t) - Rank(s) = (IF ColorOf(p) = "w" THEN 1 ELSE -1)
          [] ty = "n" -> rel = "knight"
          [] ty = "k" -> rel \in {"orth", "diag"} /\ Dist[s][t] = 1
          [] ty = "b" -> rel = "diag" /\ \A m \in Btw[s][t] : b[m] = Empty
          [] ty = "r" -> rel = "orth" /\ \A m \in Btw[s][t] : b[m] = Empty
          [] ty = "q" -> rel \in {"orth", "diag"} /\ \A m \in Btw[s][t] : b[m] = Empty

\* the squares a piece may attack t from: those on a line with t or a knight's
\* jump away
Lines == [t \in 0..64 |-> {s \in Squares : Rel[s][t] \in {"orth", "diag", "knight"}}]

\* Chess.isAttacked(square, colour)
Attacked(b, c, t) ==
    \E s \in Lines[t] : b[s] # Empty /\ ColorOf(b[s]) = c /\ Hits(b, s, t)

\* Chess.isCheck(): the king slot of the side to move is attacked
IsCheck(o) == Attacked(o.b, Opp(o.t), KingOf(o, o.t))

\* Chess.put({type, color}, square) for a type that is a string; it returns
\* false, changing nothing, for an unknown type and for a second king.
Put(o, ty, col, s) ==
    IF ty \notin PIECES THEN o
    ELSE IF ty = "k" /\ col \notin {"w", "b"} THEN o
    ELSE IF ty = "k" /\ ~(KingOf(o, col) = NoSq \/ KingOf(o, col) = s) THEN o
    ELSE LET o1 == [o EXCEPT !.b[s] = MkPiece[col][ty]]
         IN  IF ty = "k" THEN SetKing(o1, col, s) ELSE o1

\* Chess.remove(square)
Remove(o, s) ==
    LET p == o.b[s]
    IN  IF p = Empty THEN o
        ELSE LET o1 == [o EXCEPT !.b[s] = Empty]
             IN  IF TypeOf(p) = "k" THEN SetKing(o1, ColorOf(p), NoSq) ELSE o1

\* Chess.fen(): a piece is written in upper case when its colour is white and
\* in lower case otherwise.  The FEN is kept as its six fields; x counts the
\* tokens a string holds beyond them.
FenChar(p) == IF ColorOf(p) = "u" THEN TypeOf(p) ELSE p

ToFen(o) ==
    [pl |-> [s \in Squares |-> FenChar(o.b[s])],
     t |-> o.t, c |-> o.c, ep |-> o.ep, hm |-> o.hm, fm |-> o.fm, x |-> 0]

\* validateFen: six fields, and an en-passant square that fits the side to move
ValidFen(f) ==
    /\ f.x = 0
    /\ f.ep # NoSq => /\ Rank(f.ep) \in {3, 6}
                      /\ ~(Rank(f.ep) = 3 /\ f.t = "w")
                      /\ ~(Rank(f.ep) = 6 /\ f.t = "b")

KingScan(pl, k) ==
    IF \E s \in Squares : pl[s] = k THEN CHOOSE s \in Squares : pl[s] = k ELSE NoSq

\* Chess.load(fen) of a valid FEN
LoadFen(f) ==
    [b |-> f.pl, t |-> f.t, c |-> f.c, ep |-> f.ep, hm |-> f.hm, fm |-> f.fm,
     kw |-> KingScan(f.pl, "K"), kb |-> KingScan(f.pl, "k")]

\* the _kings slot load leaves: a board holds at most one king of a colour
\* (put refuses a second), so a slot that holds its king is the one load finds
Slot(b, k, hint) == IF hint # NoSq /\ b[hint] = k THEN hint ELSE KingScan(b, k)

Ghosts == {"?p", "?n", "?b", "?r", "?q"}

\* new Chess(o.fen()), which is LoadFen(ToFen(o))
Copy(o) ==
    [o EXCEPT !.b = IF \E s \in Squares : @[s] \in Ghosts
                    THEN [s \in Squares |-> FenChar(@[s])] ELSE @,
              !.kw = Slot(o.b, "K", o.kw), !.kb = Slot(o.b, "k", o.kb)]

Rights(c) == IF c = "w" THEN {"K", "Q"} ELSE {"k", "q"}

\* ROOKS of chess.js: the right that leaving or capturing on a corner clears
RookRight(c, s) ==
    IF c = "w" THEN (IF s = SqOfName["a1"] THEN {"Q"} ELSE IF s = SqOfName["h1"] THEN {"K"} ELSE {})
    ELSE (IF s = SqOfName["a8"] THEN {"q"} ELSE IF s = SqOfName["h8"] THEN {"k"} ELSE {})

\* Pawn moves of Chess._moves: n push, b double push, c capture, e en passant,
\* np / cp the same reaching the last rank (promotion, matched with "q")
PawnKind(o, from, to) ==
    LET us == o.t
        dir == IF us = "w" THEN 1 ELSE -1
        start == IF us = "w" THEN 2 ELSE 7
        df == File(to) - File(from)
        dr == Rank(to) - Rank(from)
        promo == Rank(to) \in {1, 8}
    IN  IF df = 0 /\ dr = dir /\ o.b[to] = Empty
        THEN (IF promo THEN "np" ELSE "n")
        ELSE IF /\ df = 0 /\ dr = 2 * dir /\ Rank(from) = start
                /\ o.b[to] = Empty /\ o.b[from + 8 * dir] = Empty
        THEN "b"
        ELSE IF Abs(df) = 1 /\ dr = dir
        THEN IF o.b[to] # Empty /\ ColorOf(o.b[to]) = Opp(us)
             THEN (IF promo THEN "cp" ELSE "c")
             ELSE IF to = o.ep THEN "e" ELSE "none"
        ELSE "none"

Reach(b, ty, from, to) ==
    LET rel == Rel[from][to]
    IN  CASE ty = "n" -> rel = "knight"
          [] ty = "k" -> rel \in {"orth", "diag"} /\ Dist[from][to] = 1
          [] ty = "b" -> rel = "diag" /\ \A m \in Btw[from][to] : b[m] = Empty
          [] ty = "r" -> rel = "orth" /\ \A m \in Btw[from][to] : b[m] = Empty
          [] ty = "q" -> rel \in {"orth", "diag"} /\ \A m \in Btw[from][to] : b[m] = Empty

\* Castling of Chess._moves, generated from the king slot of the side to move
CastleKind(o, from, to) ==
    LET us == o.t
        them == Opp(us)
    IN  IF from = NoSq \/ from # KingOf(o, us) \/ Rank(to) # Rank(from) THEN "none"
        ELSE IF /\ to = from + 2 /\ File(from) <= 6
                /\ (IF us = "w" THEN "K" ELSE "k") \in o.c
                /\ o.b[from + 1] = Empty /\ o.b[from + 2] = Empty
                /\ ~Attacked(o.b, them, from)
                /\ ~Attacked(o.b, them, from + 1)
                /\ ~Attacked(o.b, them, from + 2)
        THEN "k"
        ELSE IF /\ to = from - 2 /\ File(from) >= 4
                /\ (IF us = "w" THEN "Q" ELSE "q") \in o.c
                /\ o.b[from - 1] = Empty /\ o.b[from - 2] = Empty /\ o.b[from - 3] = Empty
                /\ ~Attacked(o.b, them, from)
                /\ ~Attacked(o.b, them, from - 1)
                /\ ~Attacked(o.b, them, from - 2)
        THEN "q"
        ELSE "none"

\* The pseudo-legal move from -> to of Chess._moves, "none" when there is none.
\* A square is skipped when it is empty or holds a piece of the opponent.
PseudoKind(o, from, to) ==
    LET p == o.b[from]
        us == o.t
    IN  IF p = Empty \/ ColorOf(p) = Opp(us) \/ from = to THEN "none"
        ELSE LET ty == TypeOf(p)
             IN  IF ty = "p" THEN PawnKind(o, from, to)
                 ELSE IF Reach(o.b, ty, from, to)
                 THEN (IF o.b[to] = Empty THEN "n"
                       ELSE IF ColorOf(o.b[to]) = us THEN "none" ELSE "c")
                 ELSE CastleKind(o, from, to)

\* Chess._makeMove
MakeMove(o, from, to, kind) ==
    LET us == o.t
        them == Opp(us)
        p == o.b[from]
        placed == IF kind \in {"np", "cp"} THEN MkPiece[us]["q"] ELSE p
        back == IF us = "b" THEN to + 8 ELSE to - 8
        b1 == [o.b EXCEPT ![from] = Empty, ![to] = placed]
        b2 == IF kind = "e" THEN [b1 EXCEPT ![back] = Empty] ELSE b1
        b3 == IF kind = "k" THEN [b2 EXCEPT ![to - 1] = b2[to + 1], ![to + 1] = Empty]
              ELSE IF kind = "q" THEN [b2 EXCEPT ![to + 1] = b2[to - 2], ![to - 2] = Empty]
              ELSE b2
        isKing == TypeOf(placed) = "k"
        cr == ((IF isKing THEN o.c \ Rights(us) ELSE o.c) \ RookRight(us, from))
                 \ RookRight(them, to)
    IN  [b |-> b3, t |-> them, c |-> cr,
         ep |-> IF kind = "b" THEN back ELSE NoSq,
         hm |-> IF TypeOf(p) = "p" \/ kind \in {"c", "cp", "e"} THEN 0 ELSE o.hm + 1,
         fm |-> IF us = "b" THEN o.fm + 1 ELSE o.fm,
         kw |-> IF isKing /\ us = "w" THEN to ELSE o.kw,
         kb |-> IF isKing /\ us = "b" THEN to ELSE o.kb]

\* The Move object chess.js returns
MoveObj(o, from, to, kind) ==
    [color |-> o.t, from |-> from, to |-> to, piece |-> TypeOf(o.b[from]),
     captured |-> IF kind = "e" THEN "p"
                  ELSE IF kind \in {"c", "cp"} THEN TypeOf(o.b[to]) ELSE "none",
     kind |-> kind]

\* Chess.move({from, to, promotion: "q"}): the legal move, or ok = FALSE where
\* chess.js throws "Invalid move".  A pseudo-legal move is legal when it does
\* not leave the mover's king slot attacked.
CheckedMove(o, from, to, kind, o2) ==
    IF Attacked(o2.b, Opp(o.t), KingOf(o2, o.t)) THEN [ok |-> FALSE]
    ELSE [ok |-> TRUE, pos |-> o2, mv |-> MoveObj(o, from, to, kind)]

MoveOfKind(o, from, to, kind) ==
    IF kind = "none" THEN [ok |-> FALSE]
    ELSE CheckedMove(o, from, to, kind, MakeMove(o, from, to, kind))

OracleMove(o, from, to) == MoveOfKind(o, from, to, PseudoKind(o, from, to))

OracleLegal(o, from, to) == OracleMove(o, from, to).ok

\* Chess.moves({verbose: true, square}): the legal moves as Move objects, kept
\* as their from, to and promotion.  The list is read here source square by
\* source square in the order of SQUARES, the targets of one piece in the same
\* order, and a promotion once for each piece a pawn may become.
PROMOTIONS == <<"n", "b", "r", "q">>

\* the i-th candidate from a square: a target, a promotion piece, and the
\* kind of the pseudo-legal move to the target
CandidateOf(from, to, promotion, kind) ==
    [from |-> from, to |-> to, promotion |-> promotion, kind |-> kind]

CandidateAt(o, from, i) ==
    CandidateOf(from, SquaresOrder[((i - 1) \div 4) + 1], PROMOTIONS[((i - 1) % 4) + 1],
                PseudoKind(o, from, SquaresOrder[((i - 1) \div 4) + 1]))

\* a candidate is listed when its move is legal; a move that is no promotion
\* is listed once
Listed(o, m) ==
    /\ m.kind # "none"
    /\ m.kind \in {"np", "cp"} \/ m.promotion = PROMOTIONS[1]
    /\ MoveOfKind(o, m.from, m.to, m.kind).ok

AsMove(m) ==
    [from |-> m.from, to |-> m.to,
     promotion |-> IF m.kind \in {"np", "cp"} THEN m.promotion ELSE "none"]

AsMoves(l) == [i \in 1..Len(l) |-> AsMove(l[i])]

MovesOfSquare(o, from) ==
    IF o.b[from] = Empty \/ ColorOf(o.b[from]) # o.t THEN <<>>
    ELSE AsMoves(SelectSeq([i \in 1..256 |-> CandidateAt(o, from, i)], LAMBDA m : Listed(o, m)))

RECURSIVE MovesOfSquares(_, _, _)
MovesOfSquares(o, sqs, i) ==
    IF i > Len(sqs) THEN <<>> ELSE MovesOfSquare(o, sqs[i]) \o MovesOfSquares(o, sqs, i + 1)

\* square = NoSq stands for a call without a square
OracleMoves(o, square) ==
    MovesOfSquares(o, IF square = NoSq THEN SquaresOrder ELSE <<square>>, 1)

StartRow(r) ==
    CASE r = 1 -> <<"R","N","B","Q","K","B","N","R">>
      [] r = 2 -> <<"P","P","P","P","P","P","P","P">>
      [] r = 7 -> <<"p","p","p","p","p","p","p","p">>
      [] r = 8 -> <<"r","n","b","q","k","b","n","r">>
      [] OTHER -> <<".",".",".",".",".",".",".",".">>

DEFAULT_POSITION ==
    [pl |-> [s \in Squares |-> StartRow(Rank(s))[File(s)]],
     t |-> "w", c |-> {"K", "Q", "k", "q"}, ep |-> NoSq, hm |-> 0, fm |-> 1, x |-> 0]

----------------------------------------------------------------------------
(* FusionBoard: the Fusion Map, the King Fusion Table, the virtual board    *)

\* #fused and #king_fused are JavaScript objects with string keys: a sequence
\* of <<key, value>> in insertion order.
Has(m, k) == \E i \in 1..Len(m) : m[i][1] = k
Get(m, k) == IF Has(m, k) THEN m[CHOOSE i \in 1..Len(m) : m[i][1] = k][2] ELSE "none"
Set(m, k, v) ==
    IF Has(m, k)
    THEN [i \in 1..Len(m) |-> IF m[i][1] = k THEN <<k, v>> ELSE m[i]]
    ELSE Append(m, <<k, v>>)
KeepNot(m, k, i) == IF m[i][1] = k THEN <<>> ELSE <<m[i]>>
RECURSIVE DelFrom(_, _, _)
DelFrom(m, k, i) == IF i > Len(m) THEN <<>> ELSE KeepNot(m, k, i) \o DelFrom(m, k, i + 1)
Del(m, k) == DelFrom(m, k, 1)

\* a value is truthy when it is present and not the empty string
Truthy(m, k) == Has(m, k) /\ Get(m, k) # ""

Name(s) == SQNAMES[s]
KingKey(c) == IF c = "w" THEN "wK" ELSE "bK"

\* ChessBoard.findKing: the square of the colour's king, NoSq where it throws
FindKing(o, c) == Slot(o.b, MkPiece[c]["k"], KingOf(o, c))

\* FusionBoard._updateVirtualBoard: load the primary FEN, then put every Fusion
\* Map entry's type on its square in the colour of the primary occupant; a king
\* square is skipped, a key that is no square is refused by put.
RECURSIVE ApplyFused(_, _, _, _)
ApplyFused(v, p, m, i) ==
    IF i > Len(m) THEN v
    ELSE IF m[i][1] \notin SquareNames THEN ApplyFused(v, p, m, i + 1)
    ELSE LET sq == SqOfName[m[i][1]]
             sd == p.b[sq]
         IN  ApplyFused(IF TypeOf(sd) = "k" THEN v
                        ELSE Put(v, m[i][2], IF sd = Empty THEN "u" ELSE ColorOf(sd), sq),
                        p, m, i + 1)

UpdateVirtualBoard(p, m) == ApplyFused(Copy(p), p, m, 1)

\* FusionBoard._getPieceValue
PieceValue(t) ==
    CASE t = "k" -> 1000 [] t = "q" -> 9 [] t = "r" -> 5
      [] t = "b" -> 3 [] t = "n" -> 3 [] t = "p" -> 1 [] OTHER -> 0

\* pickStrongerPiece with > for >=: a tie goes to the second piece
PickStrictlyStronger(p1, p2) == IF PieceValue(p1) > PieceValue(p2) THEN p1 ELSE p2

\* pickStrongerPiece of movePiece
PickStrongerPiece(p1, p2) == IF PieceValue(p1) >= PieceValue(p2) THEN p1 ELSE p2

\* FusionBoard.isAttacked: attacked on the primary or on the virtual board
FAttacked(p, v, s, c) == Attacked(p.b, c, s) \/ Attacked(v.b, c, s)

\* the forced move both checks make on a copy: remove the source, put its
\* occupant on the target
ForcedMove(copy, from, to) ==
    Put(Remove(copy, from), TypeOf(copy.b[from]), ColorOf(copy.b[from]), to)

\* isKingChecking from the copy on: the opponent's king (on ok) is replaced by
\* its fused type and the copy is asked for check
KingCheckOn(copy, ok, ty, opp, withMove, from, to) ==
    IF ok = NoSq THEN "throw"
    ELSE IF withMove /\ copy.b[from] = Empty THEN "throw"
    ELSE IF IsCheck(Put(Remove(IF withMove THEN ForcedMove(copy, from, to) ELSE copy, ok),
                        ty, opp, ok))
    THEN "true" ELSE "false"

\* FusionBoard.isKingChecking(movefrom, moveto): "true", "false", or "throw"
\* where findKing fails or put() is handed the occupant of an empty square
IsKingChecking(p, kf, withMove, from, to) ==
    IF ~Truthy(kf, KingKey(Opp(p.t))) THEN "false"
    ELSE KingCheckOn(Copy(p), FindKing(p, Opp(p.t)), Get(kf, KingKey(Opp(p.t))), Opp(p.t),
                     withMove, from, to)

\* FusionBoard.isInCheck
IsInCheck(p, v, kf) ==
    IsCheck(p) \/ IsCheck(v) \/ IsKingChecking(p, kf, FALSE, 0, 0) = "true"

\* the test both movePiece and _willJeopardiseKing make for a castling request;
\* only its last disjunct looks at the piece
CastlingNamed(from, to, lastType) ==
    \/ from = sq_e1 /\ to = sq_g1
    \/ from = sq_e1 /\ to = sq_c1
    \/ from = sq_e8 /\ to = sq_g8
    \/ from = sq_e8 /\ to = sq_c8 /\ lastType = "k"

\* the switch of _willJeopardiseKing: a king on the square the castling king
\* passes
CastleThrough(c1, to) ==
    CASE to = sq_g1 -> Put(c1, "k", "w", sq_f1)
      [] to = sq_g8 -> Put(c1, "k", "b", sq_f8)
      [] to = sq_c1 -> Put(c1, "k", "w", sq_d1)
      [] to = sq_c8 -> Put(c1, "k", "b", sq_d8)

\* the try block of _willJeopardiseKing on the copy c1 after the forced move,
\* ks the square findKing gives on it; an exception other than SafeError is
\* swallowed
KingJeopardy(c1, ks, p, kf, from, to) ==
    IF ks = NoSq THEN FALSE
    ELSE IF Attacked(c1.b, Opp(c1.t), ks) THEN TRUE
    ELSE IsKingChecking(p, kf, TRUE, from, to) = "true"

JeopardyAfter(c1, p, kf, from, to) == KingJeopardy(c1, FindKing(c1, c1.t), p, kf, from, to)

\* FusionBoard._willJeopardiseKing, after its _updateVirtualBoard (v)
WillJeopardiseKing(p, v, kf, from, to) ==
    IF CastlingNamed(from, to, TypeOf(v.b[from]))
    THEN IF IsInCheck(p, v, kf) THEN TRUE
         ELSE IsCheck(CastleThrough(Remove(Copy(v), from), to))
    ELSE IF v.b[from] = Empty THEN FALSE
    ELSE JeopardyAfter(ForcedMove(Copy(v), from, to), p, kf, from, to)

\* moves without the filter of lines 353-364: the primary board's own list
MovesUnfiltered(p, fused, kf, square) == OracleMoves(p, square)

\* FusionBoard.moves({verbose: true, square}): the primary board's moves that
\* _willJeopardiseKing lets pass
MovesList(p, fused, kf, square) ==
    SelectSeq(OracleMoves(p, square),
              LAMBDA m : ~WillJeopardiseKing(p, UpdateVirtualBoard(p, fused), kf, m.from, m.to))

\* the engine moves({verbose: true, square}) leaves: _willJeopardiseKing
\* rebuilds the virtual board once the primary board lists a move
MovesR(S, square) ==
    IF OracleMoves(S.prim, square) = <<>> THEN S
    ELSE [S EXCEPT !.virt = UpdateVirtualBoard(S.prim, S.fused)]

----------------------------------------------------------------------------
(* Export strings                                                          *)

\* An export string is "<fen> <entry>,<entry>,...,".  It is kept as the FEN
\* (f), the shape of what follows the FEN (ext) and the entries (ents), each
\* entry split at "=":
\*   ext = "none"     nothing follows the FEN
\*   ext = "empty"    one space follows the FEN (an empty seventh token)
\*   ext = "list"     a space and entries, the last character is ","
\*   ext = "nocomma"  a space and entries, the last character is not ","
EntryKeys == SquareNames \cup {"wK", "bK", "z9"}

\* String.toLowerCase on the value alphabet
Lower(v) == IF v = "Q" THEN "q" ELSE IF v = "K" THEN "k" ELSE v

\* String.includes("K") on an entry
IncludesK(e) == e[1] \in {"wK", "bK"} \/ (Len(e) > 1 /\ e[2] = "K")

\* { ...fused, ...king_fused }: the Fusion Map's keys in order, a shared key
\* taking the King Fusion Table's value, then the table's other keys
Merged(f, k) ==
    [i \in 1..Len(f) |-> IF Has(k, f[i][1]) THEN <<f[i][1], Get(k, f[i][1])>> ELSE f[i]]
        \o SelectSeq(k, LAMBDA e : ~Has(f, e[1]))

\* FusionBoard.export
Export(p, fused, kf) ==
    LET ents == SelectSeq(Merged(fused, kf), LAMBDA e : e[2] # "")
    IN  [f |-> ToFen(p), ext |-> IF ents = <<>> THEN "empty" ELSE "list", ents |-> ents]

\* ffen.replace(/^\s+|\s+$/g, "") of undoMove
Trim(es) == IF es.ext = "empty" THEN [es EXCEPT !.ext = "none"] ELSE es

\* the fused setter; it throws (TypeError) on an entry without "=" whose key
\* is not wK or bK
FusedSetterThrows(pieces) ==
    \E i \in 1..Len(pieces) : pieces[i][1] \notin {"wK", "bK"} /\ Len(pieces[i]) < 2

RECURSIVE FusedSetterFrom(_, _, _)
FusedSetterFrom(m, pieces, i) ==
    IF i > Len(pieces) THEN m
    ELSE IF pieces[i][1] \in {"wK", "bK"} THEN FusedSetterFrom(m, pieces, i + 1)
    ELSE FusedSetterFrom(Set(m, pieces[i][1], Lower(pieces[i][2])), pieces, i + 1)

FusedSetter(pieces) == FusedSetterFrom(<<>>, pieces, 1)

\* the king_fused setter: entries are added to the table one by one; thr is
\* TRUE when an entry without "=" stops it (TypeError)
RECURSIVE KingFusedSetter(_, _, _)
KingFusedSetter(kf, pieces, i) ==
    IF i > Len(pieces) THEN [kf |-> kf, thr |-> FALSE]
    ELSE IF Len(pieces[i]) < 2 THEN [kf |-> kf, thr |-> TRUE]
    ELSE KingFusedSetter(Set(kf, pieces[i][1], Lower(pieces[i][2])), pieces, i + 1)

\* the entry check of import: the first entry that is not accepted throws
EntryRejected(e) ==
    /\ (e[1] \notin SquareNames \/ Lower(e[2]) \notin PIECES)
    /\ e[1] \notin {"bK", "wK"}

----------------------------------------------------------------------------
(* FusionBoard: import, reset, undoMove                                     *)

\* The engine's state S is a record: prim (the primary board), olog (1 when
\* the primary board's own move log is not empty, else 0), fused, kf, hist,
\* virt (the virtual board) and rev (TRUE when the shared SQUARES array is
\* reversed).

\* the virtual FEN import validates: a Fusion Map entry with an empty type
\* leaves a piece without a letter on a square that holds no king
VirtualFenValid(p, m) ==
    /\ ValidFen(ToFen(UpdateVirtualBoard(p, m)))
    /\ \A i \in 1..Len(m) :
          (m[i][1] \in SquareNames /\ m[i][2] = "") => TypeOf(p.b[SqOfName[m[i][1]]]) = "k"

\* FusionBoard.import: thr is TRUE when it throws, st the state it leaves
ImportR(S, es) ==
    LET list   == es.ext = "list"
        pieces == IF list THEN es.ents ELSE <<>>
        fenOk  == es.ext \in {"none", "list"} /\ ValidFen(es.f)
        loaded == LoadFen(es.f)
        kset   == KingFusedSetter(S.kf, SelectSeq(pieces, IncludesK), 1)
        newf   == FusedSetter(pieces)
    IN  IF ~fenOk THEN [thr |-> TRUE, st |-> S]
        ELSE IF list /\ FusedSetterThrows(pieces) THEN [thr |-> TRUE, st |-> S]
        ELSE IF list /\ ~VirtualFenValid(loaded, newf) THEN [thr |-> TRUE, st |-> S]
        ELSE IF \E i \in 1..Len(pieces) : EntryRejected(pieces[i]) THEN [thr |-> TRUE, st |-> S]
        ELSE IF kset.thr THEN [thr |-> TRUE, st |-> [S EXCEPT !.kf = kset.kf]]
        ELSE [thr |-> FALSE,
              st |-> [S EXCEPT !.kf = kset.kf, !.prim = loaded, !.olog = 0,
                               !.fused = newf, !.virt = UpdateVirtualBoard(loaded, newf)]]

\* reset without line 319: the King Fusion Table is kept
ResetKeepsKings(S) ==
    LET p == LoadFen(DEFAULT_POSITION)
    IN  [S EXCEPT !.prim = p, !.olog = 0, !.fused = <<>>, !.hist = <<>>,
                  !.virt = UpdateVirtualBoard(p, <<>>)]

\* FusionBoard.reset
ResetR(S) ==
    LET p == LoadFen(DEFAULT_POSITION)
    IN  [S EXCEPT !.prim = p, !.olog = 0, !.fused = <<>>, !.kf = <<>>, !.hist = <<>>,
                  !.virt = UpdateVirtualBoard(p, <<>>)]

\* undoMove without the reset of lines 330-333: the last record is popped and
\* nothing is loaded when no record is left
UndoMoveNoReset(S) ==
    LET h  == IF S.hist = <<>> THEN <<>> ELSE SubSeq(S.hist, 1, Len(S.hist) - 1)
        S1 == [S EXCEPT !.hist = h]
    IN  IF h = <<>> THEN [thr |-> FALSE, st |-> S1]
        ELSE ImportR(S1, Trim(h[Len(h)].ffen))

\* FusionBoard.reportMissingFusedPiece(iterator), the key as a string
ReportMissingR(S, k) ==
    [S EXCEPT !.fused = Del(@, k), !.virt = UpdateVirtualBoard(S.prim, Del(S.fused, k))]

\* FusionBoard.undoMove
UndoMoveR(S) ==
    LET h  == IF S.hist = <<>> THEN <<>> ELSE SubSeq(S.hist, 1, Len(S.hist) - 1)
        S1 == [S EXCEPT !.hist = h]
    IN  IF h = <<>> THEN [thr |-> FALSE, st |-> ResetR(S1)]
        ELSE ImportR(S1, Trim(h[Len(h)].ffen))

----------------------------------------------------------------------------
(* FusionBoard: history records                                             *)

\* SQUARES as _fixMissingKing reads it: reversed in place whenever the side to
\* move is white
OrderAt(rev, i) == IF rev THEN SquaresOrder[65 - i] ELSE SquaresOrder[i]

RevAfter(thisTurn, rev) == IF thisTurn = "w" THEN ~rev ELSE rev

\* the places in SQUARES, read in the order rev2, of the squares that are empty
\* on the copy and not attacked; vb is the second board copy.isAttacked looks
\* at (the copy's own board for a plain Chess copy)
SafePlaces(copy, vb, rev2) ==
    {i \in 1..64 : /\ copy.b[OrderAt(rev2, i)] = Empty
                   /\ ~Attacked(copy.b, Opp(copy.t), OrderAt(rev2, i))
                   /\ ~Attacked(vb, Opp(copy.t), OrderAt(rev2, i))}

PlaceKing(copy, thisTurn, rev2, safe) ==
    IF safe = {} THEN [ok |-> FALSE, rev |-> rev2]
    ELSE [ok |-> TRUE, rev |-> rev2,
          pos |-> Put(copy, "k", thisTurn,
                      OrderAt(rev2, CHOOSE i \in safe : \A j \in safe : i <= j))]

\* FusionBoard._fixMissingKing(copy): ok = FALSE where it throws; rev is the
\* order it leaves SQUARES in
FixMissingKing(copy, vb, thisTurn, rev) ==
    PlaceKing(copy, thisTurn, RevAfter(thisTurn, rev),
              SafePlaces(copy, vb, RevAfter(thisTurn, rev)))

\* _getKingFusedMoves up to its call of _fixMissingKing, on the copy whose
\* virtual board is v
KingFusedEffects(S, v, king) ==
    IF king = NoSq THEN [ok |-> FALSE, rev |-> S.rev]
    ELSE FixMissingKing(Put(Remove(Copy(S.prim), king), Get(S.kf, KingKey(S.prim.t)),
                            S.prim.t, king),
                        v.b, S.prim.t, S.rev)

EveryMoveOn(S, v, fix) == [thr |-> ~fix.ok, virt |-> v, rev |-> fix.rev]

\* what getEveryMove leaves behind when _convertToFusionSAN asks for
\* checkmate: the virtual board refreshed to v, and SQUARES as
\* _getKingFusedMoves' call of _fixMissingKing leaves it
EveryMoveWith(S, v) ==
    IF ~Truthy(S.kf, KingKey(S.prim.t)) THEN [thr |-> FALSE, virt |-> v, rev |-> S.rev]
    ELSE EveryMoveOn(S, v, KingFusedEffects(S, v, FindKing(S.prim, S.prim.t)))

EveryMoveEffects(S) == EveryMoveWith(S, UpdateVirtualBoard(S.prim, S.fused))

\* the moves of a list in UCI format: move.from + move.to, a promotion's piece
\* dropped
UCI(l) == [i \in 1..Len(l) |-> <<l[i].from, l[i].to>>]

\* _getKingFusedMoves from its call of _fixMissingKing on: the moves of the
\* piece on the king's square that the copy lists (the copy is a FusionBoard
\* with the same Fusion Map and an empty King Fusion Table), without those to
\* a square the copy reports attacked
KingFusionList(S, fix, king) ==
    IF ~fix.ok THEN [thr |-> TRUE, moves |-> <<>>]
    ELSE [thr |-> FALSE,
          moves |-> UCI(SelectSeq(MovesList(fix.pos, S.fused, <<>>, king),
                                  LAMBDA m : ~FAttacked(fix.pos,
                                                        UpdateVirtualBoard(fix.pos, S.fused),
                                                        m.to, Opp(S.prim.t))))]

\* FusionBoard._getKingFusedMoves as getEveryMove calls it
GetKingFusedMoves(S, v, king) ==
    IF ~Truthy(S.kf, KingKey(S.prim.t)) THEN [thr |-> FALSE, moves |-> <<>>]
    ELSE KingFusionList(S, KingFusedEffects(S, v, king), king)

\* moves.indexOf(move) and moves.splice(k, 1)
IndexOf(l, x) == CHOOSE i \in 1..Len(l) : l[i] = x /\ \A j \in 1..(i - 1) : l[j] # x
RemoveAt(l, k) == SubSeq(l, 1, k - 1) \o SubSeq(l, k + 1, Len(l))

\* the loop of lines 558-564: the array iterator reads place i of the list as
\* it is now and goes on to place i + 1, whether or not an element was spliced
\* out; the element spliced out is the first one equal to the move read
RECURSIVE SpliceJeopardising(_, _, _, _)
SpliceJeopardising(S, v, moves, i) ==
    IF i > Len(moves) THEN moves
    ELSE SpliceJeopardising(S, v,
                            IF WillJeopardiseKing(S.prim, v, S.kf, moves[i][1], moves[i][2])
                            THEN RemoveAt(moves, IndexOf(moves, moves[i])) ELSE moves,
                            i + 1)

EveryMoveOf(S, v, square, kingFusion) ==
    IF kingFusion.thr THEN [thr |-> TRUE, moves |-> <<>>]
    ELSE [thr |-> FALSE,
          moves |-> SpliceJeopardising(S, v,
                                       UCI(MovesList(S.prim, S.fused, S.kf, square))
                                           \o UCI(OracleMoves(v, square))
                                           \o kingFusion.moves,
                                       1)]

EveryMoveAt(S, v, square) ==
    EveryMoveOf(S, v, square, GetKingFusedMoves(S, v, FindKing(S.prim, S.prim.t)))

\* FusionBoard.getEveryMove(square): the list it returns, thr where
\* _fixMissingKing throws; square = NoSq stands for a call without a square
GetEveryMove(S, square) == EveryMoveAt(S, UpdateVirtualBoard(S.prim, S.fused), square)

\* the engine getEveryMove leaves
GetEveryMoveR(S) ==
    [S EXCEPT !.virt = EveryMoveEffects(S).virt, !.rev = EveryMoveEffects(S).rev]

\* FusionBoard.isInCheckmate and isInStalemate where getEveryMove returns the
\* list out
IsInCheckmate(S, out) == IsInCheck(S.prim, S.virt, S.kf) /\ Len(out.moves) = 0
IsInStalemate(S, out) == ~IsInCheck(S.prim, S.virt, S.kf) /\ Len(out.moves) = 0

\* Chess.isStalemate(): no check and no legal move on the primary board
OracleStalemate(p) == ~IsCheck(p) /\ OracleMoves(p, NoSq) = <<>>

\* the squares that hold a piece, and those that hold a piece of type ty
Occupied(p) == {s \in Squares : p.b[s] # Empty}
OfType(p, ty) == {s \in Squares : TypeOf(p.b[s]) = ty}

\* Chess.isInsufficientMaterial(): two kings; two kings and one bishop or
\* knight; two kings and bishops that all stand on squares of one colour
OracleInsufficient(p) ==
    \/ Cardinality(Occupied(p)) = 2
    \/ /\ Cardinality(Occupied(p)) = 3
       /\ Cardinality(OfType(p, "b")) = 1 \/ Cardinality(OfType(p, "n")) = 1
    \/ /\ Cardinality(Occupied(p)) = Cardinality(OfType(p, "b")) + 2
       /\ \A s, t \in OfType(p, "b") : (File(s) + Rank(s)) % 2 = (File(t) + Rank(t)) % 2

\* FusionBoard.isInsufficientMaterial
IsInsufficientMaterial(S) == OracleInsufficient(S.prim) /\ Len(S.kf) = 0

\* Chess.isDraw() as FusionBoard inherits it: the half-move clock, the primary
\* board's stalemate, insufficient material through the override above.  Its
\* fourth rule, threefold repetition, needs eight plies in the oracle's move
\* log and is met by no position explored here.
OracleDraw(S, stalemate) == S.prim.hm >= 100 \/ stalemate \/ IsInsufficientMaterial(S)

\* FusionBoard.isDraw
IsDraw(S) == OracleDraw(S, OracleStalemate(S.prim)) \/ OracleStalemate(S.prim)

\* FusionBoard.isGameOver where getEveryMove returns the list out
IsGameOver(S, out) == IsInCheckmate(S, out) \/ IsDraw(S)

\* the fusion SAN's parts
FusionSAN(v, pt, vt, mv, chk) ==
    [virtual |-> v, pt |-> pt, vt |-> vt, x |-> mv.captured # "none", to |-> mv.to,
     check |-> chk]

\* _convertToFusionSAN of a fusion move that gives check: isInCheckmate runs
\* getEveryMove, whose effects are eff
CheckedSAN(S, mv, vt, eff) ==
    IF eff.thr THEN [thr |-> TRUE, virt |-> eff.virt, rev |-> eff.rev]
    ELSE [thr |-> FALSE, virt |-> eff.virt, rev |-> eff.rev,
          fsan |-> FusionSAN(TRUE, TypeOf(S.prim.b[mv.to]), vt, mv, TRUE)]

VirtualSAN(S, mv, vt, chk) ==
    IF chk THEN CheckedSAN(S, mv, vt, EveryMoveEffects(S))
    ELSE [thr |-> FALSE, virt |-> S.virt, rev |-> S.rev,
          fsan |-> FusionSAN(TRUE, TypeOf(S.prim.b[mv.to]), vt, mv, FALSE)]

\* the secondary type _convertToFusionSAN writes
VirtualType(S, mv) ==
    IF TypeOf(S.prim.b[mv.to]) = "k" /\ Truthy(S.kf, KingKey(mv.color))
    THEN Get(S.kf, KingKey(mv.color)) ELSE TypeOf(S.virt.b[mv.to])

\* FusionBoard._convertToFusionSAN(move): thr where it throws, the fusion SAN's
\* parts (fsan), and the virtual board and SQUARES order it leaves
ConvertToFusionSAN(S, mv) ==
    IF TypeOf(S.prim.b[mv.to]) = TypeOf(S.virt.b[mv.to])
    THEN IF S.olog = 0 THEN [thr |-> TRUE, virt |-> S.virt, rev |-> S.rev]
         ELSE [thr |-> FALSE, virt |-> S.virt, rev |-> S.rev,
               fsan |-> FusionSAN(FALSE, mv.piece, "none", mv, FALSE)]
    ELSE IF S.prim.b[mv.to] = Empty \/ VirtualType(S, mv) = "none"
    THEN [thr |-> TRUE, virt |-> S.virt, rev |-> S.rev]
    ELSE VirtualSAN(S, mv, VirtualType(S, mv), IsInCheck(S.prim, S.virt, S.kf))

PushRecord(S, ffen, cs) ==
    IF cs.thr THEN [thr |-> TRUE, st |-> [S EXCEPT !.virt = cs.virt, !.rev = cs.rev]]
    ELSE [thr |-> FALSE,
          st |-> [S EXCEPT !.virt = cs.virt, !.rev = cs.rev,
                           !.hist = Append(@, [fsan |-> cs.fsan, ffen |-> ffen])]]

\* updateHistory of movePiece: one record, its ffen exported before the SAN is
\* built
UpdateHistory(S, mv) ==
    PushRecord(S, Export(S.prim, S.fused, S.kf), ConvertToFusionSAN(S, mv))

\* updateMovement without line 85: the entry is written at the target and
\* stays at the source
MovedFusedCopy(f, from, to) ==
    IF Has(f, Name(from)) THEN Set(f, Name(to), Get(f, Name(from))) ELSE f

MovedFused(f, from, to) ==
    IF Has(f, Name(from)) THEN Set(Del(f, Name(from)), Name(to), Get(f, Name(from))) ELSE f

WithFused(S, f) == [S EXCEPT !.fused = f, !.virt = UpdateVirtualBoard(S.prim, f)]

\* updateMovement of movePiece
UpdateMovement(S, from, to) == WithFused(S, MovedFused(S.fused, from, to))

----------------------------------------------------------------------------
(* FusionBoard.movePiece                                                    *)

\* the _updateVirtualBoard movePiece opens with
Synced(S) == [S EXCEPT !.virt = UpdateVirtualBoard(S.prim, S.fused)]

Finished(uh, mv, why) ==
    IF uh.thr THEN [out |-> "caught", st |-> uh.st]
    ELSE [out |-> "move", st |-> uh.st, mv |-> mv, why |-> why]

\* the tail every recording branch of the try block shares: updateMovement,
\* updateHistory, return move.  A throw lands in the catch of the try block.
Finish(S, mv, from, to, why) ==
    Finished(UpdateHistory(UpdateMovement(S, from, to), mv), mv, why)

\* "Special fusion on rook and bishop": a queen is put on the target and the
\* primary board reloaded from its own FEN
RookBishop(S1, col, to) == [S1 EXCEPT !.prim = Copy(Put(S1.prim, "q", col, to)), !.olog = 0]

\* the fusion after the primary move without the test for a king that is
\* already fused with a queen (line 124 reduced to targetPieceIs("p"))
CapturedNoCeiling(S1, src, tgt, vSrc, vTgt, from, to) ==
    LET col == ColorOf(src)
        sourcePieceIs(id) == TypeOf(src) = id \/ TypeOf(vSrc) = id
        targetPieceIs(id) == TypeOf(tgt) = id \/ TypeOf(vTgt) = id
        rb == \/ sourcePieceIs("r") /\ targetPieceIs("b")
              \/ sourcePieceIs("b") /\ targetPieceIs("r")
    IN  IF tgt = Empty THEN [st |-> S1, why |-> "plain", rec |-> TRUE]
        ELSE IF TypeOf(src) = "k"
        THEN IF targetPieceIs("p")
             THEN [st |-> [S1 EXCEPT !.fused = Del(@, Name(to))],
                   why |-> "kingCapture", rec |-> TRUE]
             ELSE [st |-> [S1 EXCEPT !.fused = Del(@, Name(to)),
                                     !.kf = Set(@, KingKey(col), TypeOf(tgt))],
                   why |-> "kingFuse", rec |-> FALSE]
        ELSE IF \/ TypeOf(src) = TypeOf(tgt)
                \/ TypeOf(vSrc) = TypeOf(vTgt)
                \/ sourcePieceIs("q") /\ (targetPieceIs("r") \/ targetPieceIs("b") \/ targetPieceIs("p"))
        THEN [st |-> S1, why |-> "sameType", rec |-> TRUE]
        ELSE [st |-> [(IF rb THEN RookBishop(S1, col, to) ELSE S1) EXCEPT !.fused =
                         Set(Del(Del(@, Name(to)), Name(from)), Name(to),
                             PickStrongerPiece(TypeOf(tgt), TypeOf(vTgt)))],
              why |-> IF rb THEN "rookBishop" ELSE "fuse", rec |-> TRUE]

\* the fusion that follows the primary move (S1 the engine after it): the
\* engine it leaves, the branch taken, and whether the branch goes on to
\* updateMovement and updateHistory.  src, tgt, vSrc, vTgt are the four squares
\* read before the move.
Captured(S1, src, tgt, vSrc, vTgt, from, to) ==
    LET col == ColorOf(src)
        sourcePieceIs(id) == TypeOf(src) = id \/ TypeOf(vSrc) = id
        targetPieceIs(id) == TypeOf(tgt) = id \/ TypeOf(vTgt) = id
        rb == \/ sourcePieceIs("r") /\ targetPieceIs("b")
              \/ sourcePieceIs("b") /\ targetPieceIs("r")
    IN  IF tgt = Empty THEN [st |-> S1, why |-> "plain", rec |-> TRUE]
        ELSE IF TypeOf(src) = "k"
        THEN IF targetPieceIs("p") \/ Get(S1.kf, KingKey(col)) = "q"
             THEN [st |-> [S1 EXCEPT !.fused = Del(@, Name(to))],
                   why |-> "kingCapture", rec |-> TRUE]
             ELSE [st |-> [S1 EXCEPT !.fused = Del(@, Name(to)),
                                     !.kf = Set(@, KingKey(col), TypeOf(tgt))],
                   why |-> "kingFuse", rec |-> FALSE]
        ELSE IF \/ TypeOf(src) = TypeOf(tgt)
                \/ TypeOf(vSrc) = TypeOf(vTgt)
                \/ sourcePieceIs("q") /\ (targetPieceIs("r") \/ targetPieceIs("b") \/ targetPieceIs("p"))
        THEN [st |-> S1, why |-> "sameType", rec |-> TRUE]
        ELSE [st |-> [(IF rb THEN RookBishop(S1, col, to) ELSE S1) EXCEPT !.fused =
                         Set(Del(Del(@, Name(to)), Name(from)), Name(to),
                             PickStrongerPiece(TypeOf(tgt), TypeOf(vTgt)))],
              why |-> IF rb THEN "rookBishop" ELSE "fuse", rec |-> TRUE]

Recorded(fz, mv, from, to) ==
    IF fz.rec THEN Finish(fz.st, mv, from, to, fz.why)
    ELSE [out |-> "move", st |-> fz.st, mv |-> mv, why |-> fz.why]

AfterPrimary(S, m, src, tgt, vSrc, vTgt, from, to) ==
    IF ~m.ok THEN [out |-> "caught", st |-> S]
    ELSE Recorded(Captured([S EXCEPT !.prim = m.pos, !.olog = 1], src, tgt, vSrc, vTgt, from, to),
                  m.mv, from, to)

\* the try block of movePiece: the move on the primary board and the fusion
\* that follows a capture
PrimaryPath(S, src, tgt, vSrc, vTgt, from, to) ==
    AfterPrimary(S, OracleMove(S.prim, from, to), src, tgt, vSrc, vTgt, from, to)

\* the fused entries of the forced move, taken in the order the loop reads
\* them: the mover's entry follows it, every other entry's square but the
\* target gets its former primary occupant back; thr where put() is handed an
\* empty square's occupant
RECURSIVE RestoreFused(_, _, _, _, _, _)
RestoreFused(S, snap, i, copy, from, to) ==
    IF i > Len(snap) THEN [thr |-> FALSE, st |-> S]
    ELSE IF snap[i][1] = Name(from)
    THEN RestoreFused([S EXCEPT !.fused = Set(Del(@, Name(from)), Name(to), snap[i][2])],
                      snap, i + 1, copy, from, to)
    ELSE IF snap[i][1] = Name(to) THEN RestoreFused(S, snap, i + 1, copy, from, to)
    ELSE IF snap[i][1] \notin SquareNames THEN [thr |-> TRUE, st |-> S]
    ELSE IF copy.b[SqOfName[snap[i][1]]] = Empty THEN [thr |-> TRUE, st |-> S]
    ELSE RestoreFused([S EXCEPT !.prim = Put(@, TypeOf(copy.b[SqOfName[snap[i][1]]]),
                                             ColorOf(copy.b[SqOfName[snap[i][1]]]),
                                             SqOfName[snap[i][1]])],
                      snap, i + 1, copy, from, to)

\* the loop of lines 259-277 without its else branch: the mover's entry
\* follows it and no other fused square gets its occupant back
RestoreMoverOnly(S1, old, from, to) ==
    [thr |-> FALSE, st |-> [S1 EXCEPT !.fused = MovedFused(@, from, to)]]

RestoreFrom(S1, old, from, to) == RestoreFused(S1, S1.fused, 1, old, from, to)

\* the primary board loaded from the virtual board after its move (vpos), and
\* the mover's entry turned into its former primary type
Forced(S, src, from, vpos) ==
    [S EXCEPT !.virt = vpos, !.prim = Copy(vpos), !.olog = 0,
              !.fused = IF TypeOf(src) # "k"
                        THEN Set(@, Name(from),
                                 IF S.prim.b[from] = Empty THEN "" ELSE TypeOf(S.prim.b[from]))
                        ELSE @]

VirtualRecorded(uh) ==
    IF uh.thr THEN [res |-> "throw", why |-> "history", st |-> uh.st]
    ELSE [res |-> "move", why |-> "virtual", st |-> uh.st]

VirtualRestored(rf, mv) ==
    IF rf.thr THEN [res |-> "throw", why |-> "staleEntry", st |-> rf.st]
    ELSE VirtualRecorded(UpdateHistory(Synced(rf.st), mv))

VirtualMoved(S, src, from, to, vm) ==
    IF ~vm.ok THEN [res |-> "false", why |-> "virtualIllegal", st |-> S]
    ELSE VirtualRestored(RestoreFrom(Forced(S, src, from, vm.pos), S.prim, from, to), vm.mv)

VirtualKing(S, src, from, to, copy, ks) ==
    IF ks = NoSq THEN [res |-> "throw", why |-> "noKing", st |-> S]
    ELSE IF Attacked(copy.b, Opp(S.prim.t), ks)
    THEN [res |-> "false", why |-> "blunder", st |-> S]
    ELSE IF CastlingNamed(from, to, TypeOf(S.prim.b[from]))
    THEN [res |-> "false", why |-> "castling", st |-> S]
    ELSE VirtualMoved(S, src, from, to, OracleMove(S.virt, from, to))

VirtualChecked(S, src, from, to, copy) ==
    VirtualKing(S, src, from, to, copy, FindKing(copy, S.prim.t))

\* the second catch of movePiece: the move forced through the virtual board
VirtualPath(S, src, from, to) ==
    IF src = Empty THEN [res |-> "throw", why |-> "emptySource", st |-> S]
    ELSE VirtualChecked(S, src, from, to,
                        Put(Remove(Copy(S.prim), from), TypeOf(src), ColorOf(src), to))

TeleportRecorded(uh) ==
    IF uh.thr THEN [out |-> "caught", st |-> uh.st]
    ELSE [out |-> "move", why |-> "teleport", st |-> uh.st]

\* the king teleported on the primary board (p1), the side to move flipped in
\* its FEN, the FEN loaded
TeleportLoaded(Sr, p1, mv) ==
    IF ~ValidFen([ToFen(p1) EXCEPT !.t = Opp(@)]) THEN [out |-> "caught", st |-> [Sr EXCEPT !.prim = p1]]
    ELSE TeleportRecorded(UpdateHistory([Sr EXCEPT !.prim = [Copy(p1) EXCEPT !.t = Opp(@)],
                                                   !.olog = 0], mv))

TeleportMoved(Sr, src, from, to, m) ==
    IF ~m.ok THEN [out |-> "false", why |-> "teleportIllegal", st |-> Sr]
    ELSE TeleportLoaded(Sr, Put(Remove(Sr.prim, from), "k", ColorOf(src), to), m.mv)

TeleportFixed(S, src, from, to, fix) ==
    IF ~fix.ok THEN [out |-> "caught", st |-> [S EXCEPT !.rev = fix.rev]]
    ELSE TeleportMoved([S EXCEPT !.rev = fix.rev], src, from, to, OracleMove(fix.pos, from, to))

TeleportCopy(S, src, from) ==
    Put(Remove(Copy(S.prim), from), Get(S.kf, KingKey(ColorOf(src))), ColorOf(src), from)

TeleportOn(S, src, from, to, copy) ==
    TeleportFixed(S, src, from, to, FixMissingKing(copy, copy.b, S.prim.t, S.rev))

\* the first catch of movePiece when the mover is a fused king: the king is
\* replaced by its fused piece on a copy, the move is made there, and the king
\* is teleported on the primary board.  out = "caught" where the inner try
\* lands in the second catch.
Teleport(S, src, from, to) ==
    IF FAttacked(S.prim, S.virt, to, Opp(S.prim.t))
    THEN [out |-> "false", why |-> "teleportAttacked", st |-> S]
    ELSE TeleportOn(S, src, from, to, TeleportCopy(S, src, from))

AfterTeleport(tp, src, from, to) ==
    IF tp.out = "caught" THEN VirtualPath(tp.st, src, from, to)
    ELSE [res |-> tp.out, why |-> tp.why, st |-> tp.st]

\* the catch of the try block
Caught(S, src, from, to) ==
    IF TypeOf(src) = "k" /\ Truthy(S.kf, KingKey(ColorOf(src)))
    THEN AfterTeleport(Teleport(S, src, from, to), src, from, to)
    ELSE VirtualPath(S, src, from, to)

AfterTry(pp, src, from, to) ==
    IF pp.out = "move" THEN [res |-> "move", why |-> pp.why, st |-> pp.st]
    ELSE Caught(pp.st, src, from, to)

\* FusionBoard.movePiece(movefrom, moveto) from there on: res is "move" (a Move
\* is returned), "false" or "throw"; why names the branch; st is the state it
\* leaves
MovePieceR(S0, from, to) ==
    IF WillJeopardiseKing(S0.prim, S0.virt, S0.kf, from, to)
    THEN [res |-> "false", why |-> "jeopardy", st |-> S0]
    ELSE AfterTry(PrimaryPath(S0, S0.prim.b[from], S0.prim.b[to], S0.virt.b[from], S0.virt.b[to],
                              from, to),
                  S0.prim.b[from], from, to)

----------------------------------------------------------------------------
(* The engine as a state machine                                            *)

\* calls of movePiece and reset explored from the constructed engine
MaxPly == 2
\* calls of movePiece and reset explored after an import
ImportPly == 2
\* calls of undoMove explored in one run
MaxUndo == 2
\* calls that fail (false or an exception) explored in one run
MaxFail == 1
\* calls of undoMove after which movePiece and reset are still explored
MaxRedo == 0
\* calls of movePiece and reset explored after the import of a capture,
\* promotion or full-board position
CapturePly == 1
\* clicks on the undo button explored in one run
MaxClicks == 3
\* clock ticks that make up the 250 ms of the undo timeout (the resolution of
\* the clock explored)
Delay == 2

\* The undo button of the page (App.tsx).  ref is TRUE while timeoutRef.current
\* is not null; timers holds the ticks left of every timeout that was set and
\* has not run; clicks, sched and ran count the clicks, the timeouts set and
\* the timeouts run; gap is the time since the last timeout ran and lastGap the
\* gap that timeout found, both cut off at Delay.
Mounted ==
    [ref |-> FALSE, timers |-> <<>>, clicks |-> 0, sched |-> 0, ran |-> 0,
     gap |-> Delay, lastGap |-> Delay]

\* handleUndoClick without its test of timeoutRef.current: every click sets a
\* timeout
HandleUndoClickUnguarded(u) ==
    [u EXCEPT !.ref = TRUE, !.timers = Append(@, Delay), !.sched = @ + 1]

\* App.handleUndoClick: nothing while a timeout is pending, else a timeout of
\* 250 ms is set and kept in timeoutRef
HandleUndoClickR(u) ==
    IF u.ref THEN u
    ELSE [u EXCEPT !.ref = TRUE, !.timers = Append(@, Delay), !.sched = @ + 1]

\* the clock moves on by one tick
Ticked(u) ==
    [u EXCEPT !.timers = [i \in 1..Len(@) |-> IF @[i] > 0 THEN @[i] - 1 ELSE 0],
              !.gap = IF @ < Delay THEN @ + 1 ELSE @]

\* the callback of timeout i has called undoMove: timeoutRef is cleared in
\* its last statement, which a throwing undoMove does not reach
TimedOut(u, i, thr) ==
    [u EXCEPT !.timers = SubSeq(@, 1, i - 1) \o SubSeq(@, i + 1, Len(@)),
              !.ran = @ + 1,
              !.lastGap = u.gap,
              !.gap = 0,
              !.ref = IF thr THEN @ ELSE FALSE]

VARIABLES
    st,      \* the engine: prim, olog, fused, kf, hist, virt, rev
    last,    \* the last call: op, res, why
    pre,     \* the engine before the last call: prim, fused, kf, hist
    plast,   \* the call before the last call
    ppre,    \* the engine before that call: prim, fused, kf, hist
    inp,     \* <<s>> when the last call was import(s)
    run,     \* successful moves (m) and the undos after them (u) since the
             \* start position; pure while nothing else was called
    left,    \* calls of movePiece and reset still explored
    undos,   \* calls of undoMove made
    fails,   \* calls that failed
    ui       \* the page's undo button: ref, timers, clicks, sched, ran, gap,
             \* lastGap

vars == <<st, last, pre, plast, ppre, inp, run, left, undos, fails, ui>>

\* a position given by its pieces
Position(pcs, t, c) ==
    [pl |-> [s \in Squares |->
                IF \E e \in pcs : e[1] = SQNAMES[s]
                THEN (CHOOSE e \in pcs : e[1] = SQNAMES[s])[2] ELSE Empty],
     t |-> t, c |-> c, ep |-> NoSq, hm |-> 0, fm |-> 1, x |-> 0]

Str(f, ext, ents) == [f |-> f, ext |-> ext, ents |-> ents]

\* two kings and a black knight next to the white king
KnightFen(t) == Position({<<"e1", "K">>, <<"e8", "k">>, <<"d2", "n">>}, t, {})
\* a white rook facing a black bishop
RookBishopFen == Position({<<"e1", "K">>, <<"e8", "k">>, <<"c1", "R">>, <<"c3", "b">>}, "w", {})
\* white may castle short; a black knight stands on the open g-file
CastleFen == Position({<<"e1", "K">>, <<"h1", "R">>, <<"e8", "k">>, <<"g5", "n">>}, "w", {"K"})
\* the white king in the line of a black rook on a1
LineFen == Position({<<"e1", "K">>, <<"a1", "r">>, <<"e8", "k">>}, "w", {})
\* white pawns that may push two squares, a lone black king
PawnFen == Position({<<"e1", "K">>, <<"e2", "P">>, <<"a8", "k">>}, "w", {})
\* an en-passant square that does not fit the side to move
BadEpFen == [KnightFen("w") EXCEPT !.ep = SqOfName["e3"]]

\* the strings handed to import
ImportInputs ==
    { Str(DEFAULT_POSITION, "none", <<>>),
      Str(DEFAULT_POSITION, "empty", <<>>),
      Str(KnightFen("b"), "none", <<>>),
      Str(KnightFen("w"), "list", <<<<"d2", "q">>>>),
      Str(KnightFen("w"), "list", <<<<"d2", "Q">>, <<"bK", "r">>>>),
      Str(KnightFen("w"), "nocomma", <<<<"d2", "q">>>>),
      Str(KnightFen("w"), "list", <<<<"z9", "q">>>>),
      Str(KnightFen("w"), "list", <<<<"d2", "z">>>>),
      Str(KnightFen("w"), "list", <<<<"d2">>>>),
      Str(KnightFen("w"), "list", <<<<"wK", "z">>>>),
      Str(KnightFen("w"), "list", <<<<"wK", "">>>>),
      Str(KnightFen("w"), "list", <<<<"d2", "K">>>>),
      Str(KnightFen("w"), "list", <<<<"bK", "q">>, <<"wK">>>>),
      Str(BadEpFen, "list", <<<<"d2", "q">>>>),
      Str(RookBishopFen, "list", <<<<"c3", "q">>>>),
      Str(RookBishopFen, "list", <<<<"c3", "n">>>>),
      Str(CastleFen, "list", <<<<"g5", "r">>>>),
      Str(LineFen, "list", <<<<"a1", "n">>, <<"wK", "r">>>>),
      Str(PawnFen, "list", <<<<"bK", "r">>>>) }

\* a king next to a pawn and a knight it may take
KingFen == Position({<<"e1", "K">>, <<"d2", "p">>, <<"f2", "n">>, <<"e8", "k">>}, "w", {})
\* a knight on d4 that may take a rook, a knight, a pawn or a bishop, and a
\* pawn on e4 that may take the bishop
FuseFen ==
    Position({<<"g1", "K">>, <<"d4", "N">>, <<"e4", "P">>, <<"h8", "k">>, <<"e6", "r">>,
              <<"c6", "n">>, <<"b5", "p">>, <<"f5", "b">>}, "w", {})

\* a knight and a pawn one step from the last rank
PromoFen ==
    Position({<<"e1", "K">>, <<"h5", "k">>, <<"b7", "N">>, <<"f7", "P">>}, "w", {})
\* a full board: the white king in the corner a1, a black rook a knight's jump
\* away on b3, the black king in the corner h1, white bishops on the rest of
\* the first and last rank, white pawns everywhere else
DensePiece(s) ==
    IF s = SqOfName["a1"] THEN "K"
    ELSE IF s = SqOfName["h1"] THEN "k"
    ELSE IF s = SqOfName["b3"] THEN "r"
    ELSE IF Rank(s) \in {1, 8} THEN "B"
    ELSE "P"
DenseFen ==
    [pl |-> [s \in Squares |-> DensePiece(s)],
     t |-> "w", c |-> {}, ep |-> NoSq, hm |-> 0, fm |-> 1, x |-> 0]

\* a knight on d4 with a black queen three squares up its file
SecondaryFen ==
    Position({<<"g1", "K">>, <<"h8", "k">>, <<"d4", "N">>, <<"d7", "q">>}, "w", {})

\* a white king on e1 with the black king on a2, at the end of the second rank
RankFen == Position({<<"e1", "K">>, <<"a2", "k">>}, "w", {})

\* a white king on e1 next to a black knight on d2 that its king guards from c3
GuardedFen == Position({<<"e1", "K">>, <<"d2", "n">>, <<"c3", "k">>}, "w", {})

\* a white king in the corner h1 behind its blocked pawn on h2, the black king
\* on f2: the primary board has no move for white
CornerFen ==
    Position({<<"h1", "K">>, <<"h2", "P">>, <<"h3", "p">>, <<"f2", "k">>}, "w", {})

\* a white knight on e1 with the first rank empty beside it, the kings away
BackRankFen == Position({<<"a2", "K">>, <<"e1", "N">>, <<"h8", "k">>}, "w", {})

\* the capture, promotion and full-board positions handed to import, a
\* position with a Fusion Map entry on the empty square d4, and the positions
\* with one fused piece or fused king above
CaptureInputs ==
    { Str(KingFen, "list", <<<<"wK", "q">>>>),
      Str(KingFen, "list", <<<<"wK", "r">>>>),
      Str(FuseFen, "list", <<<<"e6", "q">>, <<"c6", "q">>, <<"f5", "n">>>>),
      Str(FuseFen, "list", <<<<"e6", "q">>, <<"c6", "q">>, <<"f5", "n">>, <<"d4", "r">>>>),
      Str(PromoFen, "list", <<<<"b7", "p">>, <<"f7", "r">>>>),
      Str(DenseFen, "list", <<<<"wK", "n">>>>),
      Str(SecondaryFen, "list", <<<<"d4", "r">>>>),
      Str(RankFen, "list", <<<<"bK", "r">>>>),
      Str(GuardedFen, "list", <<<<"d2", "q">>>>),
      Str(CornerFen, "list", <<<<"h2", "n">>>>),
      Str(BackRankFen, "list", <<<<"e1", "r">>>>),
      Str(KnightFen("w"), "list", <<<<"d4", "q">>, <<"d2", "r">>>>) }

\* the engine the constructor leaves
Constructed ==
    [prim |-> LoadFen(DEFAULT_POSITION), olog |-> 0, fused |-> <<>>, kf |-> <<>>,
     hist |-> <<>>, virt |-> LoadFen(DEFAULT_POSITION), rev |-> FALSE]

NoCall == [op |-> "init", res |-> "ok", why |-> "none", from |-> NoSq, to |-> NoSq]

\* a call other than a movePiece that returned a move names no squares
Call(op, res, why) == [op |-> op, res |-> res, why |-> why, from |-> NoSq, to |-> NoSq]

\* the result of movePiece(ft[1], ft[2]) on S0 with the squares of a returned
\* move
MoveCall(S0, ft) ==
    LET r == MovePieceR(S0, ft[1], ft[2])
    IN  [r |-> r, ft |-> IF r.res = "move" THEN ft ELSE <<NoSq, NoSq>>]

\* what the claims compare of an engine
Seen(S) == [prim |-> S.prim, fused |-> S.fused, kf |-> S.kf, hist |-> S.hist]

Init ==
    /\ st = Constructed
    /\ last = NoCall
    /\ pre = Seen(Constructed)
    /\ plast = NoCall
    /\ ppre = Seen(Constructed)
    /\ inp = <<>>
    /\ run = [m |-> 0, u |-> 0, pure |-> TRUE]
    /\ left = MaxPly
    /\ undos = 0
    /\ fails = 0
    /\ ui = Mounted

Shift == plast' = last /\ ppre' = pre /\ pre' = Seen(st)

\* the last call was a movePiece that returned a move
MoveReturned == last.op = "move" /\ last.res = "move"

\* movePiece(from, to) for every pair of squares; the pairs that leave the same
\* engine with the same result are one step
MovePiece ==
    /\ left > 0 /\ fails < MaxFail /\ undos <= MaxRedo
    /\ LET S0 == Synced(st)
       IN  \E c \in {MoveCall(S0, ft) : ft \in Squares \X Squares} :
              /\ st' = c.r.st
              /\ last' = [op |-> "move", res |-> c.r.res, why |-> c.r.why,
                          from |-> c.ft[1], to |-> c.ft[2]]
              /\ fails' = IF c.r.res = "move" THEN fails ELSE fails + 1
              /\ run' = IF c.r.res = "move" /\ run.pure /\ run.u = 0
                        THEN [run EXCEPT !.m = @ + 1]
                        ELSE [run EXCEPT !.pure = FALSE]
    /\ Shift
    /\ inp' = <<>>
    /\ left' = left - 1
    /\ UNCHANGED <<undos, ui>>

UndoMove ==
    /\ undos < MaxUndo /\ fails < MaxFail
    /\ LET r == UndoMoveR(st)
       IN  /\ st' = r.st
           /\ last' = Call("undo", IF r.thr THEN "throw" ELSE "ok", "none")
           /\ fails' = IF r.thr THEN fails + 1 ELSE fails
    /\ run' = [run EXCEPT !.u = @ + 1]
    /\ Shift
    /\ inp' = <<>>
    /\ undos' = undos + 1
    /\ UNCHANGED <<left, ui>>

Reset ==
    /\ left > 0 /\ fails < MaxFail /\ undos <= MaxRedo
    /\ last.op # "init"
    /\ st' = ResetR(st)
    /\ last' = Call("reset", "ok", "none")
    /\ run' = [m |-> 0, u |-> 0, pure |-> TRUE]
    /\ Shift
    /\ inp' = <<>>
    /\ left' = left - 1
    /\ UNCHANGED <<undos, fails, ui>>

\* import into the engine as constructed; n calls of movePiece and reset are
\* explored after it
Import(s, n) ==
    /\ last.op = "init"
    /\ LET r == ImportR(st, s)
       IN  /\ st' = r.st
           /\ last' = Call("import", IF r.thr THEN "throw" ELSE "ok", "none")
           /\ fails' = IF r.thr THEN fails + 1 ELSE fails
    /\ run' = [run EXCEPT !.pure = FALSE]
    /\ Shift
    /\ inp' = <<s>>
    /\ left' = n
    /\ UNCHANGED <<undos, ui>>

\* reportMissingFusedPiece(iterator) for a key of the Fusion Map, explored
\* right after an import and followed by undoMove only
ReportMissingFusedPiece ==
    /\ last.op = "import" /\ last.res = "ok"
    /\ \E i \in 1..Len(st.fused) :
          st' = ReportMissingR(st, st.fused[i][1])
    /\ last' = Call("report", "ok", "none")
    /\ Shift
    /\ inp' = <<>>
    /\ left' = 0
    /\ UNCHANGED <<run, undos, fails, ui>>

\* moves({verbose: true, square}) for every square and without one, explored
\* on the constructed engine, after an import, and after the move that
\* follows an import, as the last call of the run; the calls that leave the
\* same engine are one step
Moves ==
    /\ \/ last.op \in {"init", "import"} /\ last.res = "ok"
       \/ MoveReturned /\ plast.op = "import"
    /\ \E S1 \in {MovesR(st, square) : square \in Squares \cup {NoSq}} : st' = S1
    /\ last' = Call("moves", "ok", "none")
    /\ Shift
    /\ inp' = <<>>
    /\ left' = 0
    /\ undos' = MaxUndo
    /\ UNCHANGED <<run, fails, ui>>

\* getEveryMove(), explored where moves is explored, as the last call of the
\* run
EveryMove ==
    /\ \/ last.op \in {"init", "import"} /\ last.res = "ok"
       \/ MoveReturned /\ plast.op = "import"
    /\ st' = GetEveryMoveR(st)
    /\ last' = Call("every", IF EveryMoveEffects(st).thr THEN "throw" ELSE "ok", "none")
    /\ Shift
    /\ inp' = <<>>
    /\ left' = 0
    /\ undos' = MaxUndo
    /\ UNCHANGED <<run, fails, ui>>

Next ==
    \/ Moves
    \/ EveryMove
    \/ MovePiece
    \/ UndoMove
    \/ Reset
    \/ \E s \in ImportInputs : Import(s, ImportPly)
    \/ \E s \in CaptureInputs : Import(s, CapturePly)
    \/ ReportMissingFusedPiece

Spec == Init /\ [][Next]_vars

\* a click on the undo button
HandleUndoClick ==
    /\ ui.clicks < MaxClicks
    /\ ui' = [HandleUndoClickR(ui) EXCEPT !.clicks = @ + 1]
    /\ UNCHANGED <<st, last, pre, plast, ppre, inp, run, left, undos, fails>>

\* time passes; a timeout that is due may run late
Tick ==
    /\ Ticked(ui) # ui
    /\ ui' = Ticked(ui)
    /\ UNCHANGED <<st, last, pre, plast, ppre, inp, run, left, undos, fails>>

\* the callback of a due timeout runs: game.undoMove(), then timeoutRef is
\* cleared (setFen and setIsClicked redraw the page)
UndoTimeout ==
    /\ \E i \in 1..Len(ui.timers) :
          /\ ui.timers[i] = 0
          /\ LET r == UndoMoveR(st)
             IN  /\ st' = r.st
                 /\ last' = Call("undo", IF r.thr THEN "throw" ELSE "ok", "none")
                 /\ fails' = IF r.thr THEN fails + 1 ELSE fails
                 /\ ui' = TimedOut(ui, i, r.thr)
    /\ run' = [run EXCEPT !.u = @ + 1]
    /\ Shift
    /\ inp' = <<>>
    /\ undos' = undos + 1
    /\ UNCHANGED left

\* the page: moves dropped on the board (onDrop calls movePiece) and the undo
\* button
PageNext ==
    \/ MovePiece
    \/ HandleUndoClick
    \/ Tick
    \/ UndoTimeout

PageSpec == Init /\ [][PageNext]_vars

----------------------------------------------------------------------------
(* Properties                                                               *)

\* the entries of a table, whatever their order
Entries(m) == {m[i] : i \in 1..Len(m)}

\* a and b hold the same Primary Position, Fusion Map and King Fusion Table
SameTables(a, b) ==
    /\ ToFen(a.prim) = ToFen(b.prim)
    /\ Entries(a.fused) = Entries(b.fused)
    /\ Entries(a.kf) = Entries(b.kf)

\* the board in which the king of colour c is replaced by its secondary type
KingReplaced(S, c) ==
    Put(Remove(Copy(S.prim), FindKing(S.prim, c)), Get(S.kf, KingKey(c)), c, FindKing(S.prim, c))

\* the king of colour c is attacked in none of the three representations
KingSafe(S, c) ==
    /\ ~Attacked(S.prim.b, Opp(c), FindKing(S.prim, c))
    /\ ~Attacked(UpdateVirtualBoard(S.prim, S.fused).b, Opp(c), FindKing(S.prim, c))
    /\ Truthy(S.kf, KingKey(Opp(c))) =>
          ~Attacked(KingReplaced(S, Opp(c)).b, Opp(c), FindKing(S.prim, c))

\* C1: after every movePiece call that returns a move, the king of the side
\* that just moved is attacked in none of the three representations (the
\* Primary Position, the Virtual Position, the board with the opponent's fused
\* king replaced by its secondary type).
C1_MoverKingSafe == MoveReturned => KingSafe(st, pre.prim.t)

\* C2: whenever movePiece returns false, the Primary Position, the Fusion Map,
\* the King Fusion Table and the history are what they were before the call.
C2_RejectedMoveMutatesNothing ==
    (last.op = "move" /\ last.res = "false") => (SameTables(st, pre) /\ st.hist = pre.hist)

\* C3: movePiece never raises: every request that is not carried out returns
\* false.
C3_MoveNeverThrows == last.op = "move" => last.res # "throw"

\* C4: every movePiece call that returns a move appends exactly one record to
\* the history, and the record's state string is export() of the state after
\* the move.
C4_OneRecordPerMove ==
    MoveReturned =>
        /\ Len(st.hist) = Len(pre.hist) + 1
        /\ SubSeq(st.hist, 1, Len(pre.hist)) = pre.hist
        /\ st.hist[Len(st.hist)].ffen = Export(st.prim, st.fused, st.kf)

\* C5: from the start position, N successful movePiece calls followed by N
\* undoMove calls leave the start position, an empty Fusion Map, an empty King
\* Fusion Table and an empty history.
C5_UndoAllRestoresStart ==
    (run.pure /\ run.m >= 1 /\ run.u = run.m) =>
        /\ ToFen(st.prim) = DEFAULT_POSITION
        /\ st.fused = <<>> /\ st.kf = <<>> /\ st.hist = <<>>

\* two successful moves from the start position have been undone by two undos
C5_Witness == run.pure /\ run.m = 2 /\ run.u = 2 /\ last.op = "undo"

\* C6: when movePiece succeeds from a state S that holds at least one record,
\* a following undoMove restores the Primary Position, the Fusion Map and the
\* King Fusion Table of S and leaves the history of S.
C6_UndoInvertsLastMove ==
    (last.op = "undo" /\ plast.op = "move" /\ plast.res = "move" /\ ppre.hist # <<>>) =>
        (SameTables(st, ppre) /\ st.hist = ppre.hist)

\* what import(export()) makes of the engine
RoundTrip(S) == ImportR(S, Export(S.prim, S.fused, S.kf))

\* C7: in every reachable state import(export()) completes without error and
\* yields the same Primary Position, Fusion Map and King Fusion Table.
C7_RoundTrip == ~RoundTrip(st).thr /\ SameTables(RoundTrip(st).st, st)

\* the string the export format prescribes: the FEN, a space, and one
\* key=type, token for every Fusion Map entry and then for every King Fusion
\* Table entry
FormatOf(S) ==
    [f |-> ToFen(S.prim),
     ext |-> IF S.fused \o S.kf = <<>> THEN "empty" ELSE "list",
     ents |-> S.fused \o S.kf]

\* C8: export() returns the FEN, one space, then one key=type, token per
\* Fusion Map entry followed by one per King Fusion Table entry; the FEN and a
\* single space when both tables are empty.
C8_ExportFormat == Export(st.prim, st.fused, st.kf) = FormatOf(st)

\* an entry names a key that is neither a square nor wK/bK, or a type outside
\* {p, n, b, r, q, k}
BadEntry(e) ==
    \/ e[1] \notin SquareNames \cup {"wK", "bK"}
    \/ Len(e) > 1 /\ Lower(e[2]) \notin PIECES

\* C9: import throws whenever an entry of the string names an unknown key or
\* an unknown type, king entries included.
C9_ImportRejectsBadEntries ==
    (last.op = "import" /\ inp[1].ext = "list" /\ \E i \in 1..Len(inp[1].ents) : BadEntry(inp[1].ents[i]))
        => last.res = "throw"

\* C10: whenever import throws, the Primary Position, the Fusion Map and the
\* King Fusion Table are what they were before the call.
C10_FailedImportMutatesNothing ==
    (last.op = "import" /\ last.res = "throw") => SameTables(st, pre)

----------------------------------------------------------------------------
(* Properties of captures and fusion                                        *)

\* the four occupants movePiece reads before a returned move: those of the
\* source and target squares on the Primary Position and on the Virtual
\* Position rebuilt from the state before the call
PreVirt == UpdateVirtualBoard(pre.prim, pre.fused)
Src == pre.prim.b[last.from]
Tgt == pre.prim.b[last.to]
VSrc == PreVirt.b[last.from]
VTgt == PreVirt.b[last.to]

\* the capturer, or the captured piece, acts as a piece of type id
SrcActsAs(id) == TypeOf(Src) = id \/ TypeOf(VSrc) = id
TgtActsAs(id) == TypeOf(Tgt) = id \/ TypeOf(VTgt) = id

\* movePiece returned a capture of an occupied square made by a piece that is
\* not a king with its primary capability
PieceCaptured ==
    /\ MoveReturned
    /\ Src # Empty /\ TypeOf(Src) # "k" /\ Tgt # Empty
    /\ OracleLegal(pre.prim, last.from, last.to)

\* movePiece returned a capture of an occupied square made by a king
KingCaptured == MoveReturned /\ TypeOf(Src) = "k" /\ Tgt # Empty

\* one of the four pairings of the capturer's and the captured piece's types
SharedType ==
    \/ TypeOf(Src) = TypeOf(Tgt) \/ TypeOf(VSrc) = TypeOf(VTgt)
    \/ TypeOf(VSrc) = TypeOf(Tgt) \/ TypeOf(Src) = TypeOf(VTgt)

\* a queen takes a rook, a bishop or a pawn
QueenSubsumes == SrcActsAs("q") /\ (TgtActsAs("r") \/ TgtActsAs("b") \/ TgtActsAs("p"))

\* a rook takes a bishop or a bishop takes a rook
RookBishopCross ==
    \/ SrcActsAs("r") /\ TgtActsAs("b")
    \/ SrcActsAs("b") /\ TgtActsAs("r")

\* the capturer is what it was, but for a pawn that reached the last rank
NotPromoted ==
    \/ TypeOf(st.prim.b[last.to]) = TypeOf(Src)
    \/ TypeOf(Src) = "p" /\ Rank(last.to) \in {1, 8}

\* every Fusion Map entry after the move was there before, or is the
\* capturer's own entry carried to the target
NoValueChanged ==
    \A e \in Entries(st.fused) :
        \/ e \in Entries(pre.fused)
        \/ /\ e[1] = Name(last.to)
           /\ Has(pre.fused, Name(last.from))
           /\ e[2] = Get(pre.fused, Name(last.from))

\* the piece values the claims name
ClaimValue(ty) ==
    CASE ty = "k" -> 1000 [] ty = "q" -> 9 [] ty = "r" -> 5
      [] ty = "b" -> 3 [] ty = "n" -> 3 [] ty = "p" -> 1 [] OTHER -> 0

\* every key of the Fusion Map names a square that a piece other than a king
\* holds on the Primary Position
KeysOnPieces(S) ==
    \A e \in Entries(S.fused) :
        /\ e[1] \in SquareNames
        /\ S.prim.b[SqOfName[e[1]]] # Empty
        /\ TypeOf(S.prim.b[SqOfName[e[1]]]) # "k"

\* C11: movePiece, undoMove and reset keep every key of the Fusion Map on a
\* square that a piece other than a king holds on the Primary Position.
C11_FusedKeysOnPieces ==
    (last.op \in {"move", "undo", "reset"} /\ KeysOnPieces(pre)) => KeysOnPieces(st)

\* C12: when movePiece returns a move, or undoMove, import, reset or
\* reportMissingFusedPiece returns, the Virtual Position has the side to move
\* and the placement of the rebuild of (Primary Position, Fusion Map).
C12_VirtualInSync ==
    (\/ MoveReturned
     \/ last.op \in {"undo", "import", "reset", "report"} /\ last.res = "ok")
    => /\ st.virt.b = UpdateVirtualBoard(st.prim, st.fused).b
       /\ st.virt.t = UpdateVirtualBoard(st.prim, st.fused).t

\* C13: a capture by a piece that is not a king, in which one of the captured
\* piece's types equals one of the capturer's types (any of the four
\* pairings), creates and changes no Fusion Map value and does not promote the
\* capturer.
C13_SameTypeNoFusion ==
    (PieceCaptured /\ SharedType) => (NoValueChanged /\ NotPromoted)

\* C14: after a capture of a piece of the capturer's own type, or of a rook,
\* bishop or pawn by a queen, the Fusion Map entry at the destination is the
\* entry the capturer had at its source, and is absent if it had none.
C14_NoFusionGainsNothing ==
    (/\ PieceCaptured
     /\ \/ TypeOf(Src) = TypeOf(Tgt)
        \/ TypeOf(Src) = "q" /\ TypeOf(Tgt) \in {"r", "b", "p"})
    => Get(st.fused, Name(last.to)) = Get(pre.fused, Name(last.from))

\* a capture the king of the side to move may ask for in S that is flat: the
\* target is a pawn or the king is fused with a queen, the primary board
\* accepts the move and the legality test passes
FlatKingCapture(S, k, to) ==
    /\ k # NoSq
    /\ S.prim.b[to] # Empty /\ ColorOf(S.prim.b[to]) = Opp(S.prim.t)
    /\ Dist[k][to] = 1
    /\ TypeOf(S.prim.b[to]) = "p" \/ Get(S.kf, KingKey(S.prim.t)) = "q"
    /\ OracleLegal(S.prim, k, to)
    /\ ~WillJeopardiseKing(S.prim, Synced(S).virt, S.kf, k, to)

\* every flat capture the king may ask for returns a move
FlatCapturesSucceed(S) ==
    \A to \in Squares :
        FlatKingCapture(S, FindKing(S.prim, S.prim.t), to)
            => MovePieceR(Synced(S), FindKing(S.prim, S.prim.t), to).res = "move"

\* C15: a king's capture of a pawn, and any capture by a king whose King
\* Fusion Table entry is queen, succeeds and leaves the King Fusion Table as it
\* was; an entry that is queen is queen after every movePiece call.
C15_KingFusionCeiling ==
    /\ FlatCapturesSucceed(st)
    /\ (KingCaptured /\ (TypeOf(Tgt) = "p" \/ Get(pre.kf, KingKey(ColorOf(Src))) = "q"))
          => st.kf = pre.kf
    /\ last.op = "move" =>
          \A k \in {"wK", "bK"} : Get(pre.kf, k) = "q" => Get(st.kf, k) = "q"

\* a king fused with a queen has taken a piece that is not a pawn
C15_Witness ==
    /\ KingCaptured /\ TypeOf(Tgt) # "p"
    /\ Get(pre.kf, KingKey(ColorOf(Src))) = "q"

\* C16: once a colour's King Fusion Table entry is set, no capture by that
\* king replaces it with a different type.
C16_KingFusesOnce ==
    (KingCaptured /\ Get(pre.kf, KingKey(ColorOf(Src))) \in PIECES)
        => Get(st.kf, KingKey(ColorOf(Src))) = Get(pre.kf, KingKey(ColorOf(Src)))

\* C17: after a rook's capture of a bishop, or a bishop's of a rook, the
\* destination holds a queen of the capturer's colour on the Primary Position
\* and the Fusion Map has no entry at the destination or at the source.
C17_RookBishopPromotes ==
    (PieceCaptured /\ ~SharedType /\ ~QueenSubsumes /\ RookBishopCross)
    => /\ st.prim.b[last.to] = MkPiece[ColorOf(Src)]["q"]
       /\ ~Has(st.fused, Name(last.to))
       /\ ~Has(st.fused, Name(last.from))

\* a capture by a piece that is not a king that fuses: no type is shared, no
\* queen subsumes the captured piece, no rook meets a bishop
FusingCapture == PieceCaptured /\ ~SharedType /\ ~QueenSubsumes /\ ~RookBishopCross

C19_SecondaryNeverWeaker ==
    (PieceCaptured /\ Truthy(pre.fused, Name(last.from)))
    => /\ Has(st.fused, Name(last.to))
       /\ ClaimValue(Get(st.fused, Name(last.to)))
             >= ClaimValue(Get(pre.fused, Name(last.from)))

\* C20: after a move to an empty square that a fused piece other than a king
\* could make only with its secondary type, the Primary Position holds a piece
\* of its primary type at the target, and the Fusion Map has its secondary
\* type at the target and no entry at the source.
C20_SecondaryMoveKeepsTypes ==
    (/\ MoveReturned
     /\ Src # Empty /\ TypeOf(Src) # "k" /\ Tgt = Empty
     /\ Truthy(pre.fused, Name(last.from))
     /\ ~OracleLegal(pre.prim, last.from, last.to)
     /\ OracleLegal(PreVirt, last.from, last.to))
    => /\ TypeOf(st.prim.b[last.to]) = TypeOf(Src)
       /\ Get(st.fused, Name(last.to)) = Get(pre.fused, Name(last.from))
       /\ ~Has(st.fused, Name(last.from))


----------------------------------------------------------------------------
(* Properties of the fused king                                             *)

\* the engine with the king of the side to move taken from k and set on to,
\* whatever stood there removed with its Fusion Map entry, the side to move
\* flipped
Landed(S, k, to) ==
    [S EXCEPT !.prim = [Put(Remove(Remove(S.prim, to), k), "k", S.prim.t, to)
                           EXCEPT !.t = Opp(S.prim.t)],
              !.fused = Del(@, Name(to))]

\* a move from the square k of the king of the side to move that its fused
\* type can make and a king cannot, to a square that is empty or holds a piece
\* of the opponent other than its king, and that the opponent attacks neither
\* before the move nor with the king standing on it
FusedKingMove(S, k, to) ==
    /\ k # NoSq /\ to # k
    /\ Get(S.kf, KingKey(S.prim.t)) \in {"r", "n", "b", "q"}
    /\ Reach(S.prim.b, Get(S.kf, KingKey(S.prim.t)), k, to)
    /\ ~Reach(S.prim.b, "k", k, to)
    /\ ~OracleLegal(S.prim, k, to)
    /\ S.prim.b[to] = Empty
          \/ (ColorOf(S.prim.b[to]) = Opp(S.prim.t) /\ TypeOf(S.prim.b[to]) # "k")
    /\ ~FAttacked(S.prim, UpdateVirtualBoard(S.prim, S.fused), to, Opp(S.prim.t))
    /\ KingSafe(Landed(S, k, to), S.prim.t)

\* movePiece(k, to) returns a move that leaves the king on to, k empty, the
\* other side to move and the King Fusion Table as it was
KingRelocated(S, r, k, to) ==
    /\ r.res = "move"
    /\ r.st.prim.b[to] = MkPiece[S.prim.t]["k"]
    /\ r.st.prim.b[k] = Empty
    /\ r.st.prim.t = Opp(S.prim.t)
    /\ r.st.kf = S.kf

\* every move the fused king of the side to move can make only as its fused
\* type is accepted and relocates the king
FusedKingMovesSucceed(S) ==
    \A to \in Squares :
        FusedKingMove(S, FindKing(S.prim, S.prim.t), to)
            => KingRelocated(S, MovePieceR(Synced(S), FindKing(S.prim, S.prim.t), to),
                             FindKing(S.prim, S.prim.t), to)

\* C21: after a king without a King Fusion Table entry takes a rook, knight,
\* bishop or queen, its colour's entry is the captured primary type; and every
\* move from the king's square that is legal for the fused type but not for a
\* king, to a square the opponent does not attack, is accepted by movePiece
\* and leaves the king on the destination, the source empty, the other side to
\* move and the King Fusion Table unchanged.
C21_FusedKingMove ==
    /\ (KingCaptured /\ TypeOf(Tgt) \in {"r", "n", "b", "q"}
            /\ ~Has(pre.kf, KingKey(ColorOf(Src))))
          => Get(st.kf, KingKey(ColorOf(Src))) = TypeOf(Tgt)
    /\ FusedKingMovesSucceed(st)


----------------------------------------------------------------------------
(* Properties of the legality test                                          *)

\* the engine after the move from -> to is applied by hand: the occupant of
\* from is set on to, and its Fusion Map entry goes with it
Applied(S, from, to) ==
    [S EXCEPT !.prim = ForcedMove(Copy(S.prim), from, to),
              !.fused = MovedFused(Del(@, Name(to)), from, to)]

\* a plain move or capture the side to move may ask for, by the primary or by
\* the secondary capability of the piece on from; castling requests, en
\* passant and promotions are left out
PlainRequest(S, from, to) ==
    /\ S.prim.b[from] # Empty /\ ColorOf(S.prim.b[from]) = S.prim.t
    /\ ~CastlingNamed(from, to, TypeOf(UpdateVirtualBoard(S.prim, S.fused).b[from]))
    /\ TypeOf(S.prim.b[to]) # "k"
    /\ \/ PseudoKind(S.prim, from, to) \in {"n", "c"}
       \/ PseudoKind(UpdateVirtualBoard(S.prim, S.fused), from, to) \in {"n", "c"}
    /\ FindKing(Applied(S, from, to).prim, S.prim.t) # NoSq

\* C22: for a plain move or capture of the side to move,
\* _willJeopardiseKing(from, to) answers true exactly when, with the move
\* applied, the mover's king is attacked on the Primary Position, on the
\* Virtual Position or on the board with the opponent's fused king replaced by
\* its secondary type.
C22_JeopardySymmetry ==
    \A from, to \in Squares :
        PlainRequest(st, from, to)
        => (WillJeopardiseKing(st.prim, UpdateVirtualBoard(st.prim, st.fused), st.kf, from, to)
               <=> ~KingSafe(Applied(st, from, to), st.prim.t))


----------------------------------------------------------------------------
(* Properties of promotion                                                  *)

\* C23: when a piece whose primary type is neither pawn nor king and whose
\* Fusion Map entry is pawn reaches the last rank by a pawn's move, the
\* Primary Position holds a piece of its primary type at the destination, and
\* the Fusion Map has the entry pawn at the destination and none at the source.
C23_SecondaryPawnNeverPromotes ==
    (/\ MoveReturned
     /\ Src # Empty /\ TypeOf(Src) \notin {"p", "k"}
     /\ Get(pre.fused, Name(last.from)) = "p"
     /\ PseudoKind(PreVirt, last.from, last.to) \in {"np", "cp"})
    => /\ st.prim.b[last.to] = Src
       /\ Get(st.fused, Name(last.to)) = "p"
       /\ ~Has(st.fused, Name(last.from))

\* C24: when a pawn whose Fusion Map entry is bishop, rook or pawn is pushed
\* to the last rank, the Primary Position holds a queen of its colour at the
\* destination and the Fusion Map has no entry at the destination.
C24_ConflictingPromotion ==
    (/\ MoveReturned
     /\ TypeOf(Src) = "p"
     /\ Get(pre.fused, Name(last.from)) \in {"b", "r", "p"}
     /\ PseudoKind(pre.prim, last.from, last.to) = "np")
    => /\ st.prim.b[last.to] = MkPiece[ColorOf(Src)]["q"]
       /\ ~Has(st.fused, Name(last.to))

----------------------------------------------------------------------------
(* Properties of the placeholder king                                       *)

\* movePiece(k, to) of the fused king of the side to move reaches
\* _fixMissingKing: the legality test passes, the primary board refuses the
\* move and the target is not attacked
NeedsPlaceholder(S, k, to) ==
    /\ k # NoSq
    /\ Truthy(S.kf, KingKey(S.prim.t))
    /\ ~WillJeopardiseKing(S.prim, UpdateVirtualBoard(S.prim, S.fused), S.kf, k, to)
    /\ ~OracleLegal(S.prim, k, to)
    /\ ~FAttacked(S.prim, UpdateVirtualBoard(S.prim, S.fused), to, Opp(S.prim.t))

\* _fixMissingKing finds no empty unattacked square on the copy movePiece
\* hands it
PlaceholderFails(S, k) ==
    LET copy == TeleportCopy(S, S.prim.b[k], k)
    IN  ~FixMissingKing(copy, copy.b, S.prim.t, S.rev).ok

\* C25: whenever movePiece of a fused king needs the placeholder king and
\* _fixMissingKing finds no square for it, movePiece raises an error.
C25_PlaceholderFailureIsRaised ==
    \A to \in Squares :
        (/\ NeedsPlaceholder(st, FindKing(st.prim, st.prim.t), to)
         /\ PlaceholderFails(st, FindKing(st.prim, st.prim.t)))
        => MovePieceR(Synced(st), FindKing(st.prim, st.prim.t), to).res = "throw"


----------------------------------------------------------------------------
(* Properties of the virtual-board rebuild                                  *)

\* the square a Fusion Map entry names
EntrySquare(e) == SqOfName[e[1]]

\* C26: the rebuild of the Virtual Position leaves every square empty that a
\* Fusion Map entry names and that is empty on the Primary Position, and gives
\* every other square a Fusion Map entry names, but a king's, the type of its
\* entry.
C26_StaleEntriesSkipped ==
    \A e \in Entries(st.fused) :
        e[1] \in SquareNames =>
            /\ st.prim.b[EntrySquare(e)] = Empty
                  => UpdateVirtualBoard(st.prim, st.fused).b[EntrySquare(e)] = Empty
            /\ (st.prim.b[EntrySquare(e)] # Empty /\ TypeOf(st.prim.b[EntrySquare(e)]) # "k"
                    /\ e[2] \in PIECES \ {"k"})
                  => TypeOf(UpdateVirtualBoard(st.prim, st.fused).b[EntrySquare(e)]) = e[2]


----------------------------------------------------------------------------
(* Properties of reset                                                      *)

\* C27: after reset() the Primary Position and the Virtual Position are the
\* standard start position, and the Fusion Map, the King Fusion Table and the
\* history are empty.
C27_ResetRestoresStart ==
    last.op = "reset"
    => /\ ToFen(st.prim) = DEFAULT_POSITION
       /\ ToFen(st.virt) = DEFAULT_POSITION
       /\ st.fused = <<>> /\ st.kf = <<>> /\ st.hist = <<>>

\* reset was called on an engine away from the start position whose Fusion
\* Map, King Fusion Table and history were not empty
C27_Witness ==
    /\ last.op = "reset"
    /\ ToFen(pre.prim) # DEFAULT_POSITION
    /\ pre.fused # <<>> /\ pre.kf # <<>> /\ pre.hist # <<>>


----------------------------------------------------------------------------
(* Properties of moves                                                      *)

\* the place of the move m in the list l
PlaceIn(l, m) == CHOOSE i \in 1..Len(l) : l[i] = m

\* the list out holds exactly the moves of the list all whose from and to
\* the legality test of the engine S lets pass, in the order of all
ExactlyTheSafeMoves(out, all, S) ==
    /\ \A i \in 1..Len(out) : \E j \in 1..Len(all) : all[j] = out[i]
    /\ \A j \in 1..Len(all) :
          (\E i \in 1..Len(out) : out[i] = all[j])
              <=> ~WillJeopardiseKing(S.prim, UpdateVirtualBoard(S.prim, S.fused), S.kf,
                                      all[j].from, all[j].to)
    /\ \A i, j \in 1..Len(out) : i < j => PlaceIn(all, out[i]) < PlaceIn(all, out[j])

\* the list all names the oracle-legal pairs of squares of the Primary
\* Position of S, from square when one is given, and no other
ListsTheLegalMoves(all, S, square) ==
    /\ \A j \in 1..Len(all) : square = NoSq \/ all[j].from = square
    /\ \A from \in Squares, to \in Squares :
          (\E j \in 1..Len(all) : all[j].from = from /\ all[j].to = to)
              <=> ((square = NoSq \/ from = square) /\ OracleLegal(S.prim, from, to))

\* what moves({verbose: true, square}) returns on S is exactly the
\* oracle-legal moves the legality test lets pass
MovesExact(out, all, S, square) ==
    ListsTheLegalMoves(all, S, square) /\ ExactlyTheSafeMoves(out, all, S)

\* C28: moves({verbose: true, square}) returns exactly the oracle-legal moves
\* of the Primary Position that _willJeopardiseKing does not refuse, in the
\* oracle's order, and leaves the Primary Position, the Fusion Map, the King
\* Fusion Table and the history as they were.
C28_MovesFiltered ==
    last.op = "moves"
    => /\ Seen(st) = pre
       /\ \A square \in Squares \cup {NoSq} :
             MovesExact(MovesList(pre.prim, pre.fused, pre.kf, square),
                        OracleMoves(pre.prim, square), pre, square)

\* moves was called where the legality test refuses one oracle-legal move and
\* lets another pass
C28_Witness ==
    /\ last.op = "moves"
    /\ \E from, to \in Squares :
          /\ OracleLegal(pre.prim, from, to)
          /\ WillJeopardiseKing(pre.prim, PreVirt, pre.kf, from, to)
    /\ MovesList(pre.prim, pre.fused, pre.kf, NoSq) # <<>>


----------------------------------------------------------------------------
(* Frame properties of movePiece                                            *)

\* the Fusion Map entries of S on squares other than from and to
OtherEntries(S) ==
    {e \in Entries(S.fused) : e[1] \notin {Name(last.from), Name(last.to)}}

\* movePiece returned a move of a fused piece that is not a king to an empty
\* square, which the primary board accepts and which takes nothing
FusedPieceMoved ==
    /\ MoveReturned
    /\ Src # Empty /\ TypeOf(Src) # "k" /\ Tgt = Empty
    /\ Has(pre.fused, Name(last.from))
    /\ OracleLegal(pre.prim, last.from, last.to)
    /\ PseudoKind(pre.prim, last.from, last.to) # "e"

VictimSquare ==
    IF PseudoKind(PreVirt, last.from, last.to) = "e"
    THEN (IF pre.prim.t = "w" THEN last.to - 8 ELSE last.to + 8)
    ELSE NoSq

\* movePiece returned a move made through the Virtual Position
VirtualMoveReturned == MoveReturned /\ last.why = "virtual"

\* C30: after a move made through the Virtual Position, every square other
\* than the source, the destination and the square of a pawn taken en passant
\* holds on the Primary Position what it held before, and every Fusion Map
\* entry on a square other than the source and the destination is kept.
C30_SecondaryMoveFrame ==
    VirtualMoveReturned
    => /\ \A s \in Squares \ {last.from, last.to, VictimSquare} :
             st.prim.b[s] = pre.prim.b[s]
       /\ OtherEntries(pre) \subseteq Entries(st.fused)

\* a move was made through the Virtual Position while another fused piece
\* showed, on the Virtual Position, a type that is not its primary type
C30_Witness ==
    /\ VirtualMoveReturned
    /\ \E e \in OtherEntries(pre) :
          /\ e[1] \in SquareNames
          /\ pre.prim.b[EntrySquare(e)] # Empty
          /\ PreVirt.b[EntrySquare(e)] # pre.prim.b[EntrySquare(e)]

----------------------------------------------------------------------------
(* Properties of captures made with the secondary type                     *)

\* movePiece returned a capture of an occupied square that a fused piece other
\* than a king could make only with its secondary type
SecondaryCapture ==
    /\ VirtualMoveReturned
    /\ Src # Empty /\ TypeOf(Src) # "k" /\ Tgt # Empty
    /\ Truthy(pre.fused, Name(last.from))
    /\ ~OracleLegal(pre.prim, last.from, last.to)

\* C31: a capture that a fused piece other than a king makes with its
\* secondary type fuses like a capture made with the primary type: where no
\* type is shared, no queen subsumes the captured piece and no rook meets a
\* bishop, the Fusion Map entry at the destination is the stronger of the
\* captured piece's primary and secondary type.
C31_SecondaryCaptureFuses ==
    (SecondaryCapture /\ ~SharedType /\ ~QueenSubsumes /\ ~RookBishopCross)
    => Get(st.fused, Name(last.to)) =
          IF ClaimValue(TypeOf(Tgt)) >= ClaimValue(TypeOf(VTgt))
          THEN TypeOf(Tgt) ELSE TypeOf(VTgt)

----------------------------------------------------------------------------
(* Properties of getEveryMove and the game-state queries                    *)

\* the legality test's answer for a listed move in the engine S
Jeopardises(S, m) ==
    WillJeopardiseKing(S.prim, UpdateVirtualBoard(S.prim, S.fused), S.kf, m[1], m[2])

\* no move of the list is one the legality test refuses in S
NoneJeopardises(S, out) ==
    ~out.thr => \A i \in 1..Len(out.moves) : ~Jeopardises(S, out.moves[i])

\* C32: getEveryMove() returns no move m for which
\* _willJeopardiseKing(m.from, m.to) is true, whether the moves the test
\* refuses stand next to each other in the combined list or occur in it more
\* than once.
C32_EveryMoveIsSafe == NoneJeopardises(st, GetEveryMove(st, NoSq))

\* movePiece returns a move for no pair of squares
NoMoveAccepted(S) ==
    \A from, to \in Squares : MovePieceR(Synced(S), from, to).res # "move"

\* the two queries answer as the claim says
TerminalQueriesExact(S, out, none) ==
    ~out.thr =>
       /\ IsInCheckmate(S, out) <=> (IsInCheck(S.prim, S.virt, S.kf) /\ none)
       /\ IsInStalemate(S, out) <=> (~IsInCheck(S.prim, S.virt, S.kf) /\ none)

\* C33: isInCheckmate() is true exactly when isInCheck() is true and movePiece
\* would return a move for no pair of squares; isInStalemate() is true exactly
\* when isInCheck() is false and no such pair exists.
C33_TerminalQueriesExact ==
    TerminalQueriesExact(st, GetEveryMove(st, NoSq), NoMoveAccepted(st))

\* C34: isDraw() and isGameOver() report no stalemate draw while the side to
\* move has a move: where getEveryMove() is not empty and neither the
\* half-move clock nor insufficient material makes a draw, both are false; and
\* whenever isInStalemate() is true, isDraw() is true.
C34_NoDrawWhileMovesLeft ==
    LET out == GetEveryMove(st, NoSq)
    IN  ~out.thr =>
           /\ (Len(out.moves) > 0 /\ st.prim.hm < 100 /\ ~IsInsufficientMaterial(st))
                 => ~IsDraw(st) /\ ~IsGameOver(st, out)
           /\ IsInStalemate(st, out) => IsDraw(st)

----------------------------------------------------------------------------
(* Properties of the castling test                                          *)

\* the four pairs of squares a castling king moves between
CastlingSquares ==
    {<<sq_e1, sq_g1>>, <<sq_e1, sq_c1>>, <<sq_e8, sq_g8>>, <<sq_e8, sq_c8>>}

\* a piece of the side to move that is no king asks for a plain move or
\* capture between castling squares that one of its two types allows
PieceOnCastlingSquares(S, from, to) ==
    /\ S.prim.b[from] # Empty /\ ColorOf(S.prim.b[from]) = S.prim.t
    /\ TypeOf(S.prim.b[from]) # "k" /\ TypeOf(S.prim.b[to]) # "k"
    /\ \/ PseudoKind(S.prim, from, to) \in {"n", "c"}
       \/ PseudoKind(UpdateVirtualBoard(S.prim, S.fused), from, to) \in {"n", "c"}

\* the request is treated like a request between any other squares: the
\* legality test answers what its forced move answers, and a move that one of
\* the two boards allows and that leaves the mover's king attacked in no
\* representation is made
TreatedAsPieceMove(S, v, from, to) ==
    /\ WillJeopardiseKing(S.prim, v, S.kf, from, to)
          <=> JeopardyAfter(ForcedMove(Copy(v), from, to), S.prim, S.kf, from, to)
    /\ (/\ OracleLegal(S.prim, from, to) \/ OracleLegal(v, from, to)
        /\ KingSafe(Applied(S, from, to), S.prim.t))
       => MovePieceR(Synced(S), from, to).res = "move"

\* C35: the castling special case applies to kings only: a move e1-g1, e1-c1,
\* e8-g8 or e8-c8 by a piece that is not a king is validated and executed like
\* any other move of that piece, by _willJeopardiseKing and by movePiece, with
\* either capability.
C35_CastlingTestOnlyForKings ==
    \A ft \in CastlingSquares :
        PieceOnCastlingSquares(st, ft[1], ft[2])
        => TreatedAsPieceMove(st, UpdateVirtualBoard(st.prim, st.fused), ft[1], ft[2])

----------------------------------------------------------------------------
(* Properties of import as a function of its string                         *)

\* a string is a valid export string when the constructed engine imports it
\* and exports it again unchanged
ValidExport(s) ==
    /\ ~ImportR(Constructed, s).thr
    /\ Export(ImportR(Constructed, s).st.prim, ImportR(Constructed, s).st.fused,
              ImportR(Constructed, s).st.kf) = s

\* import(s) leaves the tables in S that it leaves in the constructed engine
SameImport(S, s) ==
    ~ImportR(S, s).thr => SameTables(ImportR(S, s).st, ImportR(Constructed, s).st)

\* C36: the state after import(s) depends on s alone: for a valid export
\* string s, import(s) leaves the same Primary Position, Fusion Map and King
\* Fusion Table in every engine state it is applied to.
C36_ImportDependsOnStringOnly ==
    \A s \in ImportInputs \cup CaptureInputs : ValidExport(s) => SameImport(st, s)

----------------------------------------------------------------------------
(* Properties of the side to move                                           *)

\* C37: a movePiece call that returns a move leaves the other side to move on
\* the Primary Position, whichever path made the move (the primary board, the
\* rook/bishop reload, the Virtual Position, the king's teleport); a call that
\* returns false leaves the side to move as it was.
C37_TurnAlternates ==
    /\ MoveReturned => st.prim.t = Opp(pre.prim.t)
    /\ (last.op = "move" /\ last.res = "false") => st.prim.t = pre.prim.t

----------------------------------------------------------------------------
(* Properties of the placeholder scan                                       *)

\* the copy movePiece hands to _fixMissingKing in S: the king of the side to
\* move, on k, replaced by its secondary type
PlaceholderCopy(S, k) == TeleportCopy(S, S.prim.b[k], k)

\* the square of the placeholder king on the board _fixMissingKing leaves
PlaceholderSquare(fix, t) == KingOf(fix.pos, t)

\* now is what _fixMissingKing does with the copy in this state, first what it
\* does with the same copy when it has never been called before
SafeAndDeterministic(copy, t, now, first) ==
    /\ now.ok => /\ copy.b[PlaceholderSquare(now, t)] = Empty
                 /\ ~Attacked(copy.b, Opp(t), PlaceholderSquare(now, t))
    /\ (now.ok /\ first.ok) => PlaceholderSquare(now, t) = PlaceholderSquare(first, t)

PlaceholderScan(S, copy) ==
    SafeAndDeterministic(copy, S.prim.t,
                         FixMissingKing(copy, copy.b, S.prim.t, S.rev),
                         FixMissingKing(copy, copy.b, S.prim.t, FALSE))

\* C39: _fixMissingKing is a deterministic first-safe-square scan: when it
\* returns, the placeholder king stands on a square that was empty and not
\* attacked by the opponent on the copy, and for the same board and side to
\* move it chooses the same square however often it was called before.
C39_PlaceholderScanDeterministic ==
    (FindKing(st.prim, st.prim.t) # NoSq /\ Truthy(st.kf, KingKey(st.prim.t)))
    => PlaceholderScan(st, PlaceholderCopy(st, FindKing(st.prim, st.prim.t)))

----------------------------------------------------------------------------
(* Properties of the undo button                                            *)

\* C38: undo is rate-limited on the page: a click while a timeout is pending
\* sets no timeout, so at most one timeout is outstanding; every timeout that
\* ran made one undoMove call; two undoMove calls are at least 250 ms apart;
\* and the undoMove calls are no more than the clicks.
C38_UndoRateLimited ==
    /\ Len(ui.timers) <= 1
    /\ Len(ui.timers) = 1 => ui.ref
    /\ ui.sched = ui.ran + Len(ui.timers)
    /\ undos = ui.ran
    /\ ui.ran >= 2 => ui.lastGap >= Delay
    /\ ui.ran <= ui.sched /\ ui.sched <= ui.clicks

\* two moves were made, two undos have run, and a click made while a timeout
\* was pending set none
C38_Witness == run.m = 2 /\ ui.ran >= 2 /\ ui.clicks > ui.sched

=============================================================================
